---- MODULE Spec2Model ----
(***************************************************************************)
(* Verification model of the classification head of deep-object-reid:      *)
(*   - torchreid/models/ml_decoder.py: MLDecoder.__init__ (number of       *)
(*     groups, duplicate factor), GroupFC.__call__ and the group expansion *)
(*     of MLDecoder.forward;                                               *)
(*   - torchreid/integration/sc/model_wrappers/classification.py:          *)
(*     NewClassification.postprocess and the top-k selector;               *)
(*   - torchreid/integration/sc/utils.py: get_multiclass_predictions.      *)
(*                                                                         *)
(* Floating point numbers are modelled as fixed point integers: a score or *)
(* logit v stands for v / One.  Like IEEE arithmetic, the fixed point      *)
(* operations round, so activation is monotone but not injective.          *)
(***************************************************************************)
EXTENDS Integers, Sequences, FiniteSets, TLC

VARIABLES
    decoder,    \* the MLDecoder object: configuration, status, weights
    fwd,        \* the last MLDecoder.forward call: input, status, logits
    wrapper,    \* the NewClassification object: multilabel, topk, activate
    calls,      \* postprocess calls in flight: position, outputs, result
    sel,        \* the last call of a prediction selector: input and result
    layer,      \* a TransformerDecoderLayerOptimal.forward call in progress
    task,       \* the OTEClassificationNNCFTask object and its output model
    tree        \* a module tree and the EvalModeSetter entered on it

vars == <<decoder, fwd, wrapper, calls, sel, layer, task, tree>>

(***************************************************************************)
(* Bounds of the model.                                                    *)
(***************************************************************************)
MaxNumClasses == 1002     \* largest num_classes of the configuration runs
MaxSmallClasses == 8      \* num_classes 1..MaxSmallClasses are all tried
MaxNumGroups == 1001      \* num_of_groups ranges over -2..MaxNumGroups
MaxFwdClasses == 5        \* num_classes of the runs that compute logits
MaxFwdGroups == 3         \* num_of_groups of the runs that compute logits
MaxBatch == 2             \* samples in a batch handed to forward
MaxTensors == 3           \* distinct tensors handed to the decoder layer
MaxAuxModels == 1         \* auxiliary models of mutual learning
MaxModules == 3           \* modules of a tree handed to EvalModeSetter
EmbedDim == 2             \* decoder_embedding of the runs that compute logits
MaxLen == 3               \* longest logits vector handed to a selector
MaxTopK == 2              \* largest topk the wrapper is configured with
MaxConcLen == 2           \* longest outputs vector of the interleaved calls
NumThreads == 2           \* postprocess calls that can be in flight at once

(***************************************************************************)
(* Program constants.                                                      *)
(***************************************************************************)
DefaultGroups == 100      \* embed_len_decoder when num_of_groups < 0
RoundUpMilli == 999       \* the 0.999 added before int(), in thousandths

Min(a, b) == IF a < b THEN a ELSE b

RECURSIVE SumSeq(_)
SumSeq(s) == IF s = <<>> THEN 0 ELSE Head(s) + SumSeq(Tail(s))

(***************************************************************************)
(* MLDecoder.__init__                                                      *)
(***************************************************************************)

\* lines 117-119: the number of groups (queries)
EmbedLenDecoder(num_of_groups, num_classes) ==
    LET embed_len_decoder ==
            IF num_of_groups < 0 THEN DefaultGroups ELSE num_of_groups
    IN  IF embed_len_decoder > num_classes THEN num_classes
        ELSE embed_len_decoder

\* line 141: int(num_classes / embed_len_decoder + 0.999).  The quotient is a
\* double; int() truncates.  For 1 <= embed_len_decoder <= num_classes <= 2100
\* the double result equals the exact rational one computed here.
DuplicateFactor(num_classes, embed_len_decoder) ==
    (1000 * num_classes + RoundUpMilli * embed_len_decoder)
        \div (1000 * embed_len_decoder)


\* lines 142-146: the group-expansion weights.  A tensor is kept as its shape
\* tag and the seed its cell values derive from; every cell of a tensor has a
\* different value, so that a wrong index shows in the result.
PoolingAt(w, g, d, j) ==
    IF w.dims = 3 THEN w.seed + 100 * g + 10 * d + j
    ELSE w.seed + 10 * d + j

BiasAt(b, c) == b.seed + 1000 * c

\* The tensors the module owns across calls: the projector embed_standart,
\* the queries, the group weights and the bias
ParamNames ==
    {"embed_standart.weight", "embed_standart.bias", "query_embed.weight",
     "duplicate_pooling", "duplicate_pooling_bias"}

\* how often each of them has been written in place since construction
NoWrites == [p \in ParamNames |-> 0]

NoDecoder ==
    [status |-> "none", num_classes |-> 0, num_of_groups |-> 0,
     embed_len_decoder |-> 0, duplicate_factor |-> 0,
     decoder_embedding |-> 0,
     duplicate_pooling |-> [dims |-> 3, seed |-> 0],
     duplicate_pooling_bias |-> [seed |-> 0],
     writes |-> NoWrites,
     built_by |-> "none", requested_num_classes |-> 0,
     backbone_num_classes |-> 0]

NoForward ==
    [status |-> "none", h |-> <<>>, out_len |-> 0, logits |-> <<>>,
     written |-> {}, batch |-> <<>>, batch_logits |-> <<>>,
     training |-> FALSE, loss |-> "", container |-> "none",
     out_data |-> <<>>]

\* MLDecoder.__init__(num_classes, num_of_groups, decoder_embedding).
\* dims is the rank of the weight tensor GroupFC is handed: 3 as allocated
\* at line 142, or 2 for one slice shared by all groups (GroupFC line 108).
MLDecoderInit(num_classes, num_of_groups, decoder_embedding, dims, seed) ==
    LET embed_len_decoder == EmbedLenDecoder(num_of_groups, num_classes)
        failed(error) == [NoDecoder EXCEPT
                              !.status = error,
                              !.num_classes = num_classes,
                              !.num_of_groups = num_of_groups,
                              !.embed_len_decoder = embed_len_decoder]
    IN  IF embed_len_decoder < 0
        THEN \* line 126: nn.Embedding of a negative number of rows
             failed("RuntimeError")
        ELSE IF embed_len_decoder = 0
        THEN \* line 141 divides by zero
             failed("ZeroDivisionError")
        ELSE [NoDecoder EXCEPT
                  !.status = "built",
                  !.num_classes = num_classes,
                  !.num_of_groups = num_of_groups,
                  !.embed_len_decoder = embed_len_decoder,
                  !.duplicate_factor =
                      DuplicateFactor(num_classes, embed_len_decoder),
                  !.decoder_embedding = decoder_embedding,
                  !.duplicate_pooling = [dims |-> dims, seed |-> seed],
                  !.duplicate_pooling_bias = [seed |-> seed]]

Construct(num_classes, num_of_groups, decoder_embedding, dims, seed) ==
    /\ decoder.status = "none"
    /\ decoder' = [MLDecoderInit(num_classes, num_of_groups,
                                 decoder_embedding, dims, seed) EXCEPT
                       !.built_by = "MLDecoder",
                       !.requested_num_classes = num_classes]
    /\ UNCHANGED <<fwd, wrapper, calls, sel, layer, task, tree>>

\* a builder that replaces every value that is not a class count
EffectiveNumClassesAnyInvalid(num_classes, backbone_num_classes) ==
    IF num_classes <= 0 THEN backbone_num_classes ELSE num_classes

\* build_ml_decoder_model, lines 14-15: -1 stands for the backbone's own
\* number of classes
EffectiveNumClasses(num_classes, backbone_num_classes) ==
    IF num_classes = -1 THEN backbone_num_classes ELSE num_classes

\* build_ml_decoder_model(backbone, num_classes, num_of_groups,
\* decoder_embedding), lines 10-23
Build(backbone_num_classes, num_classes, num_of_groups, decoder_embedding) ==
    /\ decoder.status = "none"
    /\ decoder' = [MLDecoderInit(EffectiveNumClasses(num_classes,
                                                     backbone_num_classes),
                                 num_of_groups, decoder_embedding, 3, 0)
                       EXCEPT
                       !.built_by = "build_ml_decoder_model",
                       !.requested_num_classes = num_classes,
                       !.backbone_num_classes = backbone_num_classes]
    /\ UNCHANGED <<fwd, wrapper, calls, sel, layer, task, tree>>

\* add_ml_decoder_head(model, num_classes, num_of_groups), lines 26-38:
\* MLDecoder is called without its first positional argument, backbone
AddHead(model_num_classes, num_classes, num_of_groups) ==
    /\ decoder.status = "none"
    /\ decoder' = [NoDecoder EXCEPT
                       !.status = "TypeError",
                       !.num_classes =
                           EffectiveNumClasses(num_classes,
                                               model_num_classes),
                       !.num_of_groups = num_of_groups,
                       !.built_by = "add_ml_decoder_head",
                       !.requested_num_classes = num_classes,
                       !.backbone_num_classes = model_num_classes]
    /\ UNCHANGED <<fwd, wrapper, calls, sel, layer, task, tree>>

(***************************************************************************)
(* GroupFC.__call__ and the group expansion of MLDecoder.forward           *)
(***************************************************************************)

\* torch.zeros(h.shape[1], duplicate_factor), per sample (line 168)
Zeros(rows, cols) == [i \in 1..rows |-> [j \in 1..cols |-> 0]]

\* torch.matmul(h_i, w_i): h_i of width D, w_i of shape D x duplicate_factor
RECURSIVE Dot(_, _, _, _, _)
Dot(h_i, w, g, j, d) ==
    IF d = 0 THEN 0
    ELSE h_i[d] * PoolingAt(w, g, d, j) + Dot(h_i, w, g, j, d - 1)

\* lines 105-108: group i's own slice of a 3D tensor, the whole 2D tensor
\* otherwise (PoolingAt ignores the group of a 2D tensor)
SliceGroup(w, i) == IF w.dims = 3 THEN i ELSE 1

MatMul(h_i, w, g, cols) ==
    [j \in 1..cols |-> Dot(h_i, w, g, j, Len(h_i))]

\* lines 103-109: for i in range(h.shape[1]): out_extrap[:, i, :] = ...
RECURSIVE GroupFC(_, _, _, _)
GroupFC(i, h, w, out_extrap) ==
    IF i > Len(h) THEN out_extrap
    ELSE GroupFC(i + 1, h, w,
                 [out_extrap EXCEPT
                      ![i] = MatMul(h[i], w, SliceGroup(w, i),
                                    Len(out_extrap[i]))])

\* out_extrap.flatten(1): the rows of a sample one after the other
RECURSIVE FlattenSlotMajor(_)
FlattenSlotMajor(out_extrap) ==
    IF out_extrap = <<>> \/ Head(out_extrap) = <<>> THEN <<>>
    ELSE [g \in 1..Len(out_extrap) |-> Head(out_extrap[g])]
         \o FlattenSlotMajor([g \in 1..Len(out_extrap) |->
                                  Tail(out_extrap[g])])

RECURSIVE Flatten(_)
Flatten(out_extrap) ==
    IF out_extrap = <<>> THEN <<>>
    ELSE Head(out_extrap) \o Flatten(Tail(out_extrap))

\* [:, :num_classes]: a Python slice, shorter than num_classes when the
\* flattened row is
FlatLen(embed_len_decoder, duplicate_factor) ==
    embed_len_decoder * duplicate_factor

TruncLen(flat_len, num_classes) == Min(flat_len, num_classes)

Truncate(flat, num_classes) ==
    SubSeq(flat, 1, TruncLen(Len(flat), num_classes))

\* h_out += duplicate_pooling_bias (line 171): an in-place add of a vector of
\* length num_classes; any other length of h_out raises RuntimeError
BiasAddOk(out_len, num_classes) == out_len = num_classes

AddBias(h_out, b) == [c \in 1..Len(h_out) |-> h_out[c] + BiasAt(b, c - 1)]

(***************************************************************************)
(* Which storage each tensor operation of forward reads through and writes *)
(* to.  A step binds a name to a tensor that is new, binds it to a view of  *)
(* the tensor another name holds, or writes in place through a name.        *)
(***************************************************************************)
Op(out, kind, of) == [out |-> out, kind |-> kind, of |-> of]

ModuleStorage(p) == [owner |-> "module", name |-> p, at |-> 0]

CallStorage(name, at) == [owner |-> "call", name |-> name, at |-> at]

\* lines 153-165: backbone output, projector, in-place ReLU, the queries
\* expanded over the batch without allocation, the transposed memory
ForwardHeadOps ==
    <<Op("x", "new", ""),
      Op("embedding_spatial", "view", "x"),
      Op("embedding_spatial_786", "new", ""),
      Op("embedding_spatial_786", "inplace", ""),
      Op("query_embed", "view", "query_embed.weight"),
      Op("tgt", "view", "query_embed"),
      Op("memory", "view", "embedding_spatial_786")>>

\* a decoder layer that adds in place: tgt += self.dropout1(tgt)
DecoderLayerOpsInPlace ==
    <<Op("dropout1", "view", "tgt"),
      Op("tgt", "inplace", ""),
      Op("tgt", "new", ""),
      Op("tgt2", "new", "")>>

\* TransformerDecoderLayerOptimal.forward, lines 67-79: every step returns a
\* new tensor; dropout in eval mode hands back its argument
DecoderLayerOps ==
    <<Op("dropout1", "view", "tgt"),
      Op("tgt", "new", ""),
      Op("tgt", "new", ""),
      Op("tgt2", "new", ""),
      Op("dropout2", "view", "tgt2"),
      Op("tgt", "new", ""),
      Op("tgt", "new", ""),
      Op("linear1", "new", ""),
      Op("activation", "new", ""),
      Op("dropout", "view", "activation"),
      Op("tgt2", "new", ""),
      Op("dropout3", "view", "tgt2"),
      Op("tgt", "new", ""),
      Op("tgt", "new", "")>>

\* lines 165-168: the decoder output transposed, the zero-filled out_extrap
ForwardMidOps ==
    <<Op("h", "view", "tgt"),
      Op("h", "view", "h"),
      Op("out_extrap", "new", "")>>

\* GroupFC.__call__, lines 103-109: slices of h and of the weights, their
\* product, the slice assignment into out_extrap, once per group
RECURSIVE GroupFCOps(_)
GroupFCOps(groups) ==
    IF groups = 0 THEN <<>>
    ELSE <<Op("h_i", "view", "h"),
           Op("w_i", "view", "duplicate_pooling"),
           Op("matmul", "new", ""),
           Op("out_extrap", "inplace", "")>> \o GroupFCOps(groups - 1)

\* lines 170-172: the flattened, sliced view; the in-place bias add, which
\* raises before it writes when the lengths differ; logits is h_out
ForwardTailOps(bias_add_ok) ==
    <<Op("h_out", "view", "out_extrap")>>
    \o (IF bias_add_ok
        THEN <<Op("h_out", "inplace", ""), Op("logits", "view", "h_out")>>
        ELSE <<>>)

ForwardOps(groups, bias_add_ok) ==
    ForwardHeadOps \o DecoderLayerOps \o ForwardMidOps
    \o GroupFCOps(groups) \o ForwardTailOps(bias_add_ok)

Bind(env, name, storage) ==
    [n \in DOMAIN env \cup {name} |-> IF n = name THEN storage ELSE env[n]]

\* the storages written in place by ops[k..], with env the storage each
\* name is bound to
RECURSIVE RunOps(_, _, _, _)
RunOps(ops, k, env, written) ==
    IF k > Len(ops) THEN written
    ELSE LET op == ops[k]
         IN  CASE op.kind = "new" ->
                      RunOps(ops, k + 1,
                             Bind(env, op.out, CallStorage(op.out, k)),
                             written)
               [] op.kind = "view" ->
                      RunOps(ops, k + 1, Bind(env, op.out, env[op.of]),
                             written)
               [] op.kind = "inplace" ->
                      RunOps(ops, k + 1, env, written \cup {env[op.out]})

WrittenStorages(groups, bias_add_ok) ==
    RunOps(ForwardOps(groups, bias_add_ok), 1,
           [p \in ParamNames |-> ModuleStorage(p)], {})

\* a parameter whose storage was written has changed
WriteBack(writes, written) ==
    [p \in ParamNames |->
         IF ModuleStorage(p) \in written THEN writes[p] + 1 ELSE writes[p]]

\* MLDecoder.forward, lines 151-172, on the group embeddings h of one sample
Forward(h) ==
    /\ decoder.status = "built"
    /\ fwd.status = "none"
    /\ Len(h) = decoder.embed_len_decoder
    /\ LET out_extrap == GroupFC(1, h, decoder.duplicate_pooling,
                                 Zeros(Len(h), decoder.duplicate_factor))
           h_out == Truncate(Flatten(out_extrap), decoder.num_classes)
           ok == BiasAddOk(Len(h_out), decoder.num_classes)
           written == WrittenStorages(Len(h), ok)
       IN  /\ IF ok
              THEN fwd' = [NoForward EXCEPT
                              !.status = "ok", !.h = h,
                              !.out_len = Len(h_out),
                              !.logits =
                                  AddBias(h_out,
                                          decoder.duplicate_pooling_bias),
                              !.written = written]
              ELSE fwd' = [NoForward EXCEPT
                              !.status = "RuntimeError", !.h = h,
                              !.out_len = Len(h_out),
                              !.written = written]
           /\ decoder' = [decoder EXCEPT
                              !.writes = WriteBack(decoder.writes, written)]
    /\ UNCHANGED <<wrapper, calls, sel, layer, task, tree>>

\* a forward that looks at the loss before it looks at the mode
ReturnContainerLossFirst(training, loss) ==
    IF loss \notin {"asl", "bce", "am_binary"} THEN "KeyError"
    ELSE IF ~training THEN "list" ELSE "tuple"

\* lines 177-185: what forward hands back, by mode and configured loss
ReturnContainer(training, loss) ==
    IF ~training THEN "list"
    ELSE IF loss \in {"asl", "bce", "am_binary"} THEN "tuple"
    ELSE "KeyError"

\* MLDecoder.forward, lines 151-185, on the group embeddings h of one
\* sample, in training or evaluation mode and with the configured loss;
\* similarity_adjustment is off
ForwardInMode(h, training, loss) ==
    /\ decoder.status = "built"
    /\ fwd.status = "none"
    /\ Len(h) = decoder.embed_len_decoder
    /\ LET out_extrap == GroupFC(1, h, decoder.duplicate_pooling,
                                 Zeros(Len(h), decoder.duplicate_factor))
           h_out == Truncate(Flatten(out_extrap), decoder.num_classes)
           ok == BiasAddOk(Len(h_out), decoder.num_classes)
           written == WrittenStorages(Len(h), ok)
           logits == AddBias(h_out, decoder.duplicate_pooling_bias)
           container == ReturnContainer(training, loss)
       IN  /\ IF ~ok
              THEN fwd' = [NoForward EXCEPT
                              !.status = "RuntimeError", !.h = h,
                              !.out_len = Len(h_out),
                              !.written = written,
                              !.training = training, !.loss = loss]
              ELSE IF container = "KeyError"
              THEN fwd' = [NoForward EXCEPT
                              !.status = "KeyError", !.h = h,
                              !.out_len = Len(h_out),
                              !.logits = logits,
                              !.written = written,
                              !.training = training, !.loss = loss]
              ELSE fwd' = [NoForward EXCEPT
                              !.status = "ok", !.h = h,
                              !.out_len = Len(h_out),
                              !.logits = logits,
                              !.written = written,
                              !.training = training, !.loss = loss,
                              !.container = container,
                              !.out_data = <<logits>>]
           /\ decoder' = [decoder EXCEPT
                              !.writes = WriteBack(decoder.writes, written)]
    /\ UNCHANGED <<wrapper, calls, sel, layer, task, tree>>

(***************************************************************************)
(* TransformerDecoderLayerOptimal.forward, lines 67-79, one step per        *)
(* statement.  A tensor is the term that computes it: an input of the call  *)
(* or an operation of the layer applied to terms.                           *)
(***************************************************************************)
Input(name, id) == [op |-> name, id |-> id, args |-> <<>>]

Term(op, args) == [op |-> op, id |-> 0, args |-> args]

NoTerm == Term("none", <<>>)

NoLayer ==
    [pc |-> 0, training |-> FALSE, tgt |-> NoTerm, tgt2 |-> NoTerm,
     memory |-> NoTerm, tgt_in |-> NoTerm, memory_in |-> NoTerm,
     trace |-> <<>>]

\* nn.Dropout: the argument itself in evaluation mode
Dropout(name, x, training) == IF training THEN Term(name, <<x>>) ELSE x

\* a layer that normalizes before it adds
ResidualNormFirst(norm, tgt, branch) ==
    Term("add", <<Term(norm, <<tgt>>), branch>>)

\* lines 71-72, 74-75, 77-78 in pairs: tgt = tgt + dropout(...), then
\* tgt = self.norm(tgt)
ResidualThenNorm(norm, tgt, branch) ==
    Term(norm, <<Term("add", <<tgt, branch>>)>>)

\* forward is entered with the queries and the memory
LayerStart(tgt, memory, training) ==
    /\ layer.pc = 0
    /\ layer' = [NoLayer EXCEPT
                     !.pc = 1, !.training = training, !.tgt = tgt,
                     !.memory = memory, !.tgt_in = tgt,
                     !.memory_in = memory]
    /\ UNCHANGED <<decoder, fwd, wrapper, calls, sel, task, tree>>

\* lines 71-72
SelfStage ==
    /\ layer.pc = 1
    /\ layer' = [layer EXCEPT
                     !.pc = 2,
                     !.tgt = ResidualThenNorm(
                                 "norm1", layer.tgt,
                                 Dropout("dropout1", layer.tgt,
                                         layer.training)),
                     !.trace = Append(@, "norm1")]
    /\ UNCHANGED <<decoder, fwd, wrapper, calls, sel, task, tree>>

\* line 73
Attention ==
    /\ layer.pc = 2
    /\ layer' = [layer EXCEPT
                     !.pc = 3,
                     !.tgt2 = Term("multihead_attn",
                                   <<layer.tgt, layer.memory, layer.memory>>),
                     !.trace = Append(@, "multihead_attn")]
    /\ UNCHANGED <<decoder, fwd, wrapper, calls, sel, task, tree>>

\* lines 74-75
AttentionStage ==
    /\ layer.pc = 3
    /\ layer' = [layer EXCEPT
                     !.pc = 4,
                     !.tgt = ResidualThenNorm(
                                 "norm2", layer.tgt,
                                 Dropout("dropout2", layer.tgt2,
                                         layer.training)),
                     !.trace = Append(@, "norm2")]
    /\ UNCHANGED <<decoder, fwd, wrapper, calls, sel, task, tree>>

\* line 76
FeedForward ==
    /\ layer.pc = 4
    /\ layer' = [layer EXCEPT
                     !.pc = 5,
                     !.tgt2 =
                         Term("linear2",
                              <<Dropout("dropout",
                                        Term("activation",
                                             <<Term("linear1",
                                                    <<layer.tgt>>)>>),
                                        layer.training)>>),
                     !.trace = Append(@, "linear2")]
    /\ UNCHANGED <<decoder, fwd, wrapper, calls, sel, task, tree>>

\* lines 77-79
FeedForwardStage ==
    /\ layer.pc = 5
    /\ layer' = [layer EXCEPT
                     !.pc = 6,
                     !.tgt = ResidualThenNorm(
                                 "norm3", layer.tgt,
                                 Dropout("dropout3", layer.tgt2,
                                         layer.training)),
                     !.trace = Append(@, "norm3")]
    /\ UNCHANGED <<decoder, fwd, wrapper, calls, sel, task, tree>>

(***************************************************************************)
(* MLDecoder.forward on a batch: the tensors keep their batch axis, h is    *)
(* [bs, embed_len_decoder, D] and out_extrap [bs, embed_len_decoder,        *)
(* duplicate_factor]                                                        *)
(***************************************************************************)

\* The backbone and the decoder stack (line 153 and lines 158-166) are not in
\* this source tree.  The specification has them work on each sample on its
\* own, so a sample's feature map is named here by the group embeddings they
\* give for it.
DecoderOutput(x) == x

\* a slice that hands every row of the batch the first sample's embedding
SliceBatchFirst(h, i) == [b \in 1..Len(h) |-> h[1][i]]

\* h_i = h[:, i, :] (line 104)
SliceBatch(h, i) == [b \in 1..Len(h) |-> h[b][i]]

\* torch.matmul(h_i, w_i) with h_i of shape [bs, D] (line 109)
MatMulBatch(h_i, w, g, cols) ==
    [b \in 1..Len(h_i) |-> MatMul(h_i[b], w, g, cols)]

\* lines 103-109 with the batch axis: out_extrap[:, i, :] = ...
RECURSIVE GroupFCBatch(_, _, _, _)
GroupFCBatch(i, h, w, out_extrap) ==
    IF i > Len(h[1]) THEN out_extrap
    ELSE LET product == MatMulBatch(SliceBatch(h, i), w, SliceGroup(w, i),
                                    Len(out_extrap[1][i]))
         IN  GroupFCBatch(i + 1, h, w,
                          [b \in 1..Len(h) |->
                               [out_extrap[b] EXCEPT ![i] = product[b]]])

\* lines 151-172 on the feature maps xs of a batch
ForwardBatch(xs) ==
    /\ decoder.status = "built"
    /\ fwd.status = "none"
    /\ \A b \in 1..Len(xs) : Len(xs[b]) = decoder.embed_len_decoder
    /\ LET h == [b \in 1..Len(xs) |-> DecoderOutput(xs[b])]
           groups == Len(h[1])
           out_extrap ==
               GroupFCBatch(1, h, decoder.duplicate_pooling,
                            [b \in 1..Len(h) |->
                                 Zeros(groups, decoder.duplicate_factor)])
           h_out == [b \in 1..Len(h) |->
                         Truncate(Flatten(out_extrap[b]),
                                  decoder.num_classes)]
           ok == BiasAddOk(Len(h_out[1]), decoder.num_classes)
           written == WrittenStorages(groups, ok)
           logits == [b \in 1..Len(h) |->
                          AddBias(h_out[b], decoder.duplicate_pooling_bias)]
       IN  /\ IF ok
              THEN fwd' = [NoForward EXCEPT
                              !.status = "ok", !.h = h[1],
                              !.out_len = Len(h_out[1]),
                              !.logits = logits[1],
                              !.written = written,
                              !.batch = xs,
                              !.batch_logits = logits]
              ELSE fwd' = [NoForward EXCEPT
                              !.status = "RuntimeError", !.h = h[1],
                              !.out_len = Len(h_out[1]),
                              !.written = written,
                              !.batch = xs]
           /\ decoder' = [decoder EXCEPT
                              !.writes = WriteBack(decoder.writes, written)]
    /\ UNCHANGED <<wrapper, calls, sel, layer, task, tree>>

\* Lines 168-172 on shapes alone, for configurations whose tensors are too
\* large to enumerate; storages are not followed here
ForwardShape ==
    /\ decoder.status = "built"
    /\ fwd.status = "none"
    /\ LET out_len == TruncLen(FlatLen(decoder.embed_len_decoder,
                                       decoder.duplicate_factor),
                               decoder.num_classes)
       IN  fwd' = [NoForward EXCEPT
                      !.status = IF BiasAddOk(out_len, decoder.num_classes)
                                 THEN "ok" ELSE "RuntimeError",
                      !.out_len = out_len]
    /\ UNCHANGED <<decoder, wrapper, calls, sel, layer, task, tree>>


(***************************************************************************)
(* Scores, logits and the activations.  A number v stands for v / One.     *)
(***************************************************************************)
One == 1000000            \* the 1.0 the sum of the outputs is compared with
AbsTol == 10000           \* atol=0.01 of the np.isclose call
RtolInverse == 100000     \* 1 / rtol, rtol=1e-05 being np.isclose's default
PosThrDefault == 500000   \* pos_thr = 0.5
Inf == 2000000000         \* the float inf np.exp overflows to
NaN == -1                 \* the float nan that inf / inf and 0 / 0 give

Abs(a) == IF a < 0 THEN -a ELSE a

\* np.exp(x), in hundredths, rounded to the nearest representable value.
\* Like the floating point exp it is monotone and maps neighbouring arguments
\* to the same value (np.exp(1e-17) == np.exp(0.0) == 1.0).  np.exp(800.0)
\* overflows to inf and np.exp(-800.0) underflows to 0.0.
ExpCenti(x) ==
    CASE x = -800000000 -> 0
      [] x = -3000000 -> 5
      [] x = -2000000 -> 14
      [] x = -1000000 -> 37
      [] x = -510011 -> 60
      [] x = -510005 -> 60
      [] x = -500050 -> 61
      [] x = -500000 -> 61
      [] x = -100000 -> 90
      [] x = -1 -> 100
      [] x = 0 -> 100
      [] x = 1 -> 100
      [] x = 100000 -> 111
      [] x = 500000 -> 165
      [] x = 500050 -> 165
      [] x = 510005 -> 167
      [] x = 510011 -> 167
      [] x = 1000000 -> 272
      [] x = 2000000 -> 739
      [] x = 3000000 -> 2009
      [] x = 800000000 -> Inf

\* a / b on floats, a and b being non-negative multiples of 1/100 or inf:
\* inf / inf and 0 / 0 are nan, a finite number over inf is 0
FloatDiv(a, b) ==
    IF b = Inf THEN (IF a = Inf THEN NaN ELSE 0)
    ELSE IF b = 0 THEN NaN
    ELSE (a * One) \div b

\* np.sum of np.exp(x): inf as soon as one term is
SumExp(e) ==
    IF \E i \in 1..Len(e) : e[i] = Inf THEN Inf ELSE SumSeq(e)

\* softmax_numpy: x = np.exp(x); x /= np.sum(x)
softmax_numpy(x) ==
    LET e == [i \in 1..Len(x) |-> ExpCenti(x[i])]
        total == SumExp(e)
    IN  [i \in 1..Len(x) |-> FloatDiv(e[i], total)]

\* What a call of softmax_numpy leaves behind: np.exp(x) allocates a new
\* array, which the name x is rebound to and which x /= ... then divides in
\* place; the array the caller passed keeps its values.
SoftmaxCallInPlace(x) ==
    [value |-> softmax_numpy(x), arg_after |-> softmax_numpy(x)]

SoftmaxCall(x) == [value |-> softmax_numpy(x), arg_after |-> x]

\* sigmoid_numpy: 1. / (1. + np.exp(-1. * x))
sigmoid_positive_exponent(x) ==
    [i \in 1..Len(x) |-> FloatDiv(100, 100 + ExpCenti(x[i]))]

sigmoid_numpy(x) ==
    [i \in 1..Len(x) |->
         IF ExpCenti(-x[i]) = Inf THEN 0
         ELSE FloatDiv(100, 100 + ExpCenti(-x[i]))]

\* np.isclose(a, b, atol=atol): abs(a - b) <= atol + rtol * abs(b)
IsCloseAbsOnly(a, b, atol) == Abs(a - b) <= atol

IsClose(a, b, atol) == Abs(a - b) <= atol + (Abs(b) \div RtolInverse)

(***************************************************************************)
(* model_wrappers/classification.py: the selectors                         *)
(***************************************************************************)

\* All orders of the positions 1..n
Orders(n) ==
    {p \in [1..n -> 1..n] : \A i, j \in 1..n : i # j => p[i] # p[j]}

Reverse(s) == [i \in 1..Len(s) |-> s[Len(s) + 1 - i]]

\* np.argpartition(a, kth): some order of the positions in which the element
\* at position kth (0-based) is where a sort would put it, no element before
\* it is larger and none after it is smaller.  Which of the orders that
\* qualify is returned is left open by numpy.
ArgPartitions(a, kth) ==
    {p \in Orders(Len(a)) :
        /\ \A i \in 1..kth : a[p[i]] <= a[p[kth + 1]]
        /\ \A i \in (kth + 2)..Len(a) : a[p[i]] >= a[p[kth + 1]]}

\* a.argsort(): some order that sorts a ascending; the default sort is not
\* stable, the order of equal elements is left open
ArgSorts(a) ==
    {q \in Orders(Len(a)) :
        \A i \in 1..(Len(a) - 1) : a[q[i]] <= a[q[i + 1]]}

\* scores.argsort()[::-1]
DescOrdersNoReverse(a) == ArgSorts(a)

DescOrders(a) == {Reverse(q) : q \in ArgSorts(a)}

\* a[-topk:]: the last topk elements, and the whole of a when topk = 0
LastK(a, topk) ==
    IF topk = 0 THEN a ELSE SubSeq(a, Len(a) - topk + 1, Len(a))

\* get_multiclass_predictions(logits, topk, activate), lines 66-75: the set of
\* lists it can return.  Indices are 0-based as in the source.
TopKResults(logits, topk, activate) ==
    LET scores_all == IF activate THEN softmax_numpy(logits) ELSE logits
        n == Len(logits)
        kth == IF topk = 0 THEN 0 ELSE n - topk
    IN  UNION {
          LET indices == LastK(p, topk)
              scores == [r \in 1..Len(indices) |-> scores_all[indices[r]]]
          IN  {[r \in 1..Len(indices) |->
                   [index |-> indices[desc_order[r]] - 1,
                    score |-> scores[desc_order[r]]]] :
               desc_order \in DescOrders(scores)} :
          p \in ArgPartitions(scores_all, kth)}

\* np.argpartition raises ValueError for a kth outside the array
TopKRaises(logits, topk) == topk > Len(logits) \/ topk < 0

\* get_multilabel_predictions(logits, pos_thr, activate), lines 78-88
RECURSIVE MultilabelLoopInclusive(_, _, _, _)
MultilabelLoopInclusive(i, scores, pos_thr, acc) ==
    IF i > Len(scores) THEN acc
    ELSE MultilabelLoopInclusive(i + 1, scores, pos_thr,
                                 IF scores[i] >= pos_thr
                                 THEN Append(acc, [index |-> i - 1,
                                                   score |-> scores[i]])
                                 ELSE acc)

RECURSIVE MultilabelLoop(_, _, _, _)
MultilabelLoop(i, scores, pos_thr, acc) ==
    IF i > Len(scores) THEN acc
    ELSE MultilabelLoop(i + 1, scores, pos_thr,
                        IF scores[i] > pos_thr
                        THEN Append(acc, [index |-> i - 1,
                                          score |-> scores[i]])
                        ELSE acc)

WrapperMultilabelFallback(logits, pos_thr, activate) ==
    LET scores == IF activate THEN sigmoid_numpy(logits) ELSE logits
        found == MultilabelLoop(1, scores, pos_thr, <<>>)
    IN  IF found = <<>> THEN <<[index |-> 0, score |-> scores[1]]>>
        ELSE found

WrapperMultilabel(logits, pos_thr, activate) ==
    MultilabelLoop(1, IF activate THEN sigmoid_numpy(logits) ELSE logits,
                   pos_thr, <<>>)


(***************************************************************************)
(* integration/sc/utils.py: get_multiclass_predictions                     *)
(***************************************************************************)

\* np.argmax(logits): the first position of the maximum, as a scan that
\* replaces the best position only by a strictly larger element
RECURSIVE ArgMaxLastScan(_, _, _)
ArgMaxLastScan(a, i, best) ==
    IF i > Len(a) THEN best
    ELSE ArgMaxLastScan(a, i + 1, IF a[i] >= a[best] THEN i ELSE best)

RECURSIVE ArgMaxScan(_, _, _)
ArgMaxScan(a, i, best) ==
    IF i > Len(a) THEN best
    ELSE ArgMaxScan(a, i + 1, IF a[i] > a[best] THEN i ELSE best)

ArgMaxLast(a) == ArgMaxLastScan(a, 2, 1)

ArgMax(a) == ArgMaxScan(a, 2, 1)

\* get_multiclass_predictions(logits, labels, activate), lines 323-327:
\* the argmax is taken on the logits as passed, before the activation
UtilsMulticlassResult(logits, labels, activate) ==
    LET i == ArgMax(logits)
        scores == IF activate THEN softmax_numpy(logits) ELSE logits
    IN  <<[label |-> labels[i], probability |-> scores[i]]>>

\* softmax_numpy(x) called on its own
Softmax(x) ==
    /\ sel.fn = "none"
    /\ sel' = [fn |-> "softmax_numpy", logits |-> x, status |-> "ok",
               result |-> SoftmaxCall(x).value,
               logits_after |-> SoftmaxCall(x).arg_after]
    /\ UNCHANGED <<decoder, fwd, wrapper, calls, layer, task, tree>>

\* The arrays of the caller after the call: the logits array is only handed
\* to softmax_numpy, the label list is only indexed
LogitsAfter(logits, activate) ==
    IF activate THEN SoftmaxCall(logits).arg_after ELSE logits

NoSel ==
    [fn |-> "none", logits |-> <<>>, labels |-> <<>>, topk |-> 0,
     activate |-> FALSE, status |-> "none", result |-> <<>>]

UtilsMulticlass(logits, labels, activate) ==
    /\ sel.fn = "none"
    /\ Len(labels) = Len(logits)
    /\ sel' = [fn |-> "utils_multiclass", logits |-> logits,
               labels |-> labels, topk |-> 1, activate |-> activate,
               status |-> "ok",
               result |-> UtilsMulticlassResult(logits, labels, activate),
               ncalls |-> 1, second |-> <<>>,
               logits_after |-> LogitsAfter(logits, activate),
               labels_after |-> labels]
    /\ UNCHANGED <<decoder, fwd, wrapper, calls, layer, task, tree>>

\* the caller calls again with the same array, label list and flag
UtilsMulticlassAgain ==
    /\ sel.fn = "utils_multiclass"
    /\ sel.ncalls = 1
    /\ sel' = [sel EXCEPT
                   !.ncalls = 2,
                   !.second = UtilsMulticlassResult(sel.logits_after,
                                                    sel.labels_after,
                                                    sel.activate),
                   !.logits_after = LogitsAfter(sel.logits_after,
                                                sel.activate)]
    /\ UNCHANGED <<decoder, fwd, wrapper, calls, layer, task, tree>>

\* the caller calls the wrapper's selector again with the same array
WrapperMulticlassAgain ==
    /\ sel.fn = "wrapper_multiclass"
    /\ sel.status = "ok"
    /\ sel.ncalls = 1
    /\ \E result \in TopKResults(sel.logits_after, sel.topk, sel.activate) :
           sel' = [sel EXCEPT
                      !.ncalls = 2,
                      !.second = result,
                      !.logits_after = LogitsAfter(sel.logits_after,
                                                   sel.activate)]
    /\ UNCHANGED <<decoder, fwd, wrapper, calls, layer, task, tree>>

\* get_multilabel_predictions(logits, labels, pos_thr, activate), lines
\* 330-340; line 337 attaches labels[i] to class i
LabelForResultPosition(labels, i, item_labels) == labels[Len(item_labels) + 1]

LabelFor(labels, i, item_labels) == labels[i]

RECURSIVE UtilsMultilabelLoop(_, _, _, _, _)
UtilsMultilabelLoop(i, scores, labels, pos_thr, item_labels) ==
    IF i > Len(scores) THEN item_labels
    ELSE UtilsMultilabelLoop(
             i + 1, scores, labels, pos_thr,
             IF scores[i] > pos_thr
             THEN Append(item_labels,
                         [label |-> LabelFor(labels, i, item_labels),
                          probability |-> scores[i]])
             ELSE item_labels)

UtilsMultilabelResult(logits, labels, pos_thr, activate) ==
    UtilsMultilabelLoop(1,
                        IF activate THEN sigmoid_numpy(logits) ELSE logits,
                        labels, pos_thr, <<>>)

UtilsMultilabel(logits, labels, pos_thr, activate) ==
    /\ sel.fn = "none"
    /\ Len(labels) = Len(logits)
    /\ sel' = [fn |-> "utils_multilabel", logits |-> logits,
               labels |-> labels, pos_thr |-> pos_thr,
               activate |-> activate, status |-> "ok",
               result |-> UtilsMultilabelResult(logits, labels, pos_thr,
                                                activate),
               logits_after |-> logits, labels_after |-> labels]
    /\ UNCHANGED <<decoder, fwd, wrapper, calls, layer, task, tree>>

WrapperMultilabelCall(logits, pos_thr, activate) ==
    /\ sel.fn = "none"
    /\ sel' = [fn |-> "wrapper_multilabel", logits |-> logits,
               labels |-> <<>>, pos_thr |-> pos_thr,
               activate |-> activate, status |-> "ok",
               result |-> WrapperMultilabel(logits, pos_thr, activate),
               logits_after |-> logits, labels_after |-> <<>>]
    /\ UNCHANGED <<decoder, fwd, wrapper, calls, layer, task, tree>>

WrapperMulticlass(logits, topk, activate) ==
    /\ sel.fn = "none"
    /\ IF TopKRaises(logits, topk)
       THEN sel' = [fn |-> "wrapper_multiclass", logits |-> logits,
                    labels |-> <<>>, topk |-> topk, activate |-> activate,
                    status |-> "ValueError", result |-> <<>>]
       ELSE \E result \in TopKResults(logits, topk, activate) :
                sel' = [fn |-> "wrapper_multiclass", logits |-> logits,
                        labels |-> <<>>, topk |-> topk,
                        activate |-> activate,
                        status |-> "ok", result |-> result,
                        ncalls |-> 1, second |-> <<>>,
                        logits_after |-> LogitsAfter(logits, activate)]
    /\ UNCHANGED <<decoder, fwd, wrapper, calls, layer, task, tree>>

(***************************************************************************)
(* NewClassification.postprocess, lines 44-53, one step per access to the  *)
(* shared field self.activate                                              *)
(***************************************************************************)
IdleCall ==
    [pc |-> "idle", outputs |-> <<>>, entry_activate |-> FALSE,
     used_activate |-> FALSE,
     status |-> "none", result |-> <<>>]

\* line 45: outputs = outputs[self.output_blob_name].squeeze()
\* (entry_activate records what self.activate was when the call began)
Start(t, outputs) ==
    /\ calls[t].pc = "idle"
    /\ calls' = [calls EXCEPT ![t] =
                     [IdleCall EXCEPT !.pc = "reset",
                                      !.outputs = outputs,
                                      !.entry_activate = wrapper.activate]]
    /\ UNCHANGED <<decoder, fwd, wrapper, sel, layer, task, tree>>

\* line 46: self.activate = False
ResetValueKeep(old) == old

ResetValue(old) == FALSE

Reset(t) ==
    /\ calls[t].pc = "reset"
    /\ wrapper' = [wrapper EXCEPT !.activate = ResetValue(wrapper.activate)]
    /\ calls' = [calls EXCEPT ![t].pc = "check"]
    /\ UNCHANGED <<decoder, fwd, sel, layer, task, tree>>

\* lines 47-48: if not np.isclose(np.sum(outputs), 1.0, atol=0.01):
\*                  self.activate = True
NeedsActivation(outputs) == ~IsClose(SumSeq(outputs), One, AbsTol)

Check(t) ==
    /\ calls[t].pc = "check"
    /\ wrapper' = IF NeedsActivation(calls[t].outputs)
                  THEN [wrapper EXCEPT !.activate = TRUE]
                  ELSE wrapper
    /\ calls' = [calls EXCEPT ![t].pc = "select"]
    /\ UNCHANGED <<decoder, fwd, sel, layer, task, tree>>

\* What lines 50-53 can return for the given value of self.activate
PostprocessResults(outputs, multilabel, topk, act) ==
    IF multilabel
    THEN {[status |-> "ok",
           result |-> WrapperMultilabel(outputs, PosThrDefault, act)]}
    ELSE IF TopKRaises(outputs, topk)
         THEN {[status |-> "ValueError", result |-> <<>>]}
         ELSE {[status |-> "ok", result |-> r] :
               r \in TopKResults(outputs, topk, act)}

\* lines 50-53: self.activate is read when the selector is called
Select(t) ==
    /\ calls[t].pc = "select"
    /\ \E out \in PostprocessResults(calls[t].outputs, wrapper.multilabel,
                                     wrapper.topk, wrapper.activate) :
           calls' = [calls EXCEPT ![t].pc = "done",
                                  ![t].used_activate = wrapper.activate,
                                  ![t].status = out.status,
                                  ![t].result = out.result]
    /\ UNCHANGED <<decoder, fwd, wrapper, sel, layer, task, tree>>


\* the call returns its result and its frame is gone
Return(t) ==
    /\ calls[t].pc = "done"
    /\ calls' = [calls EXCEPT ![t] = IdleCall]
    /\ UNCHANGED <<decoder, fwd, wrapper, sel, layer, task, tree>>

(***************************************************************************)
(* The functions of utils.py, lines 313-340, called with arguments of any  *)
(* type.  An argument is its type and its value: x and logits are an       *)
(* ndarray or a str, labels a list of labels, a list with elements that    *)
(* are no labels (bad holds their positions) or a str, pos_thr a float or  *)
(* a str, activate a bool or a str.  The functions test no type; an        *)
(* operation fails where Python or numpy rejects its operand.              *)
(***************************************************************************)
NdArray(v) == [type |-> "ndarray", value |-> v]

UnexpectedStr == [type |-> "str", value |-> <<>>]

LabelList(v, bad) == [type |-> "list", value |-> v, bad |-> bad]

UnexpectedLabels == [type |-> "str", value |-> <<>>, bad |-> {}]

Float(v) == [type |-> "float", value |-> v]

UnexpectedPosThr == [type |-> "str", value |-> 0]

Bool(b) == [type |-> "bool", value |-> b]

\* a non-empty str, with the truth value "if activate:" gives it
UnexpectedActivate == [type |-> "str", value |-> TRUE]

Truthy(activate) == activate.value

Returned(value) == [status |-> "ok", result |-> value]

Raised(error) == [status |-> error, result |-> <<>>]

\* line 314: -1. * x is a TypeError for a str
TypedSigmoid(x) ==
    IF x.type = "str" THEN Raised("TypeError")
    ELSE Returned(sigmoid_numpy(x.value))

\* line 318: np.exp has no loop for a str
TypedSoftmax(x) ==
    IF x.type = "str" THEN Raised("TypeError")
    ELSE Returned(softmax_numpy(x.value))

\* ScoredLabel(label=labels[i], ...), lines 327 and 337: a str is indexed
\* like a list and gives a character; ScoredLabel is not part of this source
\* tree, and it may take what is no label or reject it
ScoredLabelOutcomes(labels, i, probability) ==
    IF labels.type = "str"
    THEN {Raised("ValueError"),
          Returned(<<[label |-> "character", probability |-> probability]>>)}
    ELSE IF i \in labels.bad
    THEN {Raised("ValueError"),
          Returned(<<[label |-> "str", probability |-> probability]>>)}
    ELSE {Returned(<<[label |-> "label", probability |-> probability]>>)}

\* get_multiclass_predictions(logits, labels, activate), lines 323-327.
\* np.argmax of a str is 0 or a TypeError, by the numpy at hand; softmax of
\* it is a TypeError; with activate false float(logits[0]) of a str is a
\* ValueError
TypedMulticlass(logits, labels, activate) ==
    IF logits.type = "str"
    THEN IF Truthy(activate) THEN {Raised("TypeError")}
         ELSE {Raised("TypeError"), Raised("ValueError")}
    ELSE LET i == ArgMax(logits.value)
             scores == IF Truthy(activate) THEN softmax_numpy(logits.value)
                       ELSE logits.value
         IN  ScoredLabelOutcomes(labels, i, scores[i])

\* the loop of lines 335-338 from class i on: logits[i] > pos_thr is a
\* TypeError for a str
RECURSIVE TypedMultilabelLoop(_, _, _, _, _)
TypedMultilabelLoop(i, scores, labels, pos_thr, item_labels) ==
    IF i > Len(scores) THEN {Returned(item_labels)}
    ELSE IF pos_thr.type = "str" THEN {Raised("TypeError")}
    ELSE IF scores[i] > pos_thr.value
    THEN UNION {IF made.status = "ok"
                THEN TypedMultilabelLoop(i + 1, scores, labels, pos_thr,
                                         item_labels \o made.result)
                ELSE {made} :
                made \in ScoredLabelOutcomes(labels, i, scores[i])}
    ELSE TypedMultilabelLoop(i + 1, scores, labels, pos_thr, item_labels)

\* get_multilabel_predictions(logits, labels, pos_thr, activate), lines
\* 330-340: sigmoid of a str is a TypeError, and a str has no shape
TypedMultilabel(logits, labels, pos_thr, activate) ==
    IF logits.type = "str"
    THEN IF Truthy(activate) THEN {Raised("TypeError")}
         ELSE {Raised("AttributeError")}
    ELSE TypedMultilabelLoop(1,
                             IF Truthy(activate)
                             THEN sigmoid_numpy(logits.value)
                             ELSE logits.value,
                             labels, pos_thr, <<>>)

TypedCall(fn, args, outcome) ==
    /\ sel.fn = "none"
    /\ sel' = [fn |-> fn, args |-> args, status |-> outcome.status,
               result |-> outcome.result]
    /\ UNCHANGED <<decoder, fwd, wrapper, calls, layer, task, tree>>

NoPosThr == [type |-> "none", value |-> 0]

NoActivate == [type |-> "none", value |-> FALSE]

NoLabels == [type |-> "none", value |-> <<>>, bad |-> {}]

CallSigmoid(x) ==
    TypedCall("sigmoid_numpy",
              [logits |-> x, labels |-> NoLabels, pos_thr |-> NoPosThr,
               activate |-> NoActivate],
              TypedSigmoid(x))

CallSoftmax(x) ==
    TypedCall("softmax_numpy",
              [logits |-> x, labels |-> NoLabels, pos_thr |-> NoPosThr,
               activate |-> NoActivate],
              TypedSoftmax(x))

CallMulticlass(logits, labels, activate) ==
    \E outcome \in TypedMulticlass(logits, labels, activate) :
        TypedCall("get_multiclass_predictions",
                  [logits |-> logits, labels |-> labels,
                   pos_thr |-> NoPosThr,
                   activate |-> activate],
                  outcome)

CallMultilabel(logits, labels, pos_thr, activate) ==
    \E outcome \in TypedMultilabel(logits, labels, pos_thr, activate) :
        TypedCall("get_multilabel_predictions",
                  [logits |-> logits, labels |-> labels,
                   pos_thr |-> pos_thr, activate |-> activate],
                  outcome)

(***************************************************************************)
(* The dataset classes and helpers of utils.py, lines 28-252, called with  *)
(* arguments of any type.  An argument is named by its type: "none" for    *)
(* None, "path" for the path of a directory or of a .json annotation file  *)
(* that exists and holds one set of classes, "empty_str" for "", "int" for *)
(* an integer that is not 0, "str" for a str where none is expected, and   *)
(* "dataset", "labels", "dict", "template", "bool" for what the function   *)
(* expects.  None of the functions tests a type.                           *)
(***************************************************************************)
EntryTruthy(type) == type \notin {"none", "empty_str"}

\* lines 50-59, from subset k on; roots and ann_files hold the arguments of
\* the three subsets in the order the dict was filled.  osp.abspath of an
\* int is a TypeError, and so is '.json' in an int
RECURSIVE AdapterLoop(_, _, _, _)
AdapterLoop(k, roots, ann_files, multilabel) ==
    IF k > Len(roots) THEN "ok"
    ELSE IF ~EntryTruthy(roots[k])
    THEN AdapterLoop(k + 1, roots, ann_files, multilabel)
    ELSE IF roots[k] = "int" THEN "TypeError"
    ELSE IF ~EntryTruthy(ann_files[k])
    THEN IF multilabel THEN "AssertionError"
         ELSE AdapterLoop(k + 1, roots, ann_files, multilabel)
    ELSE IF ann_files[k] = "int" THEN "TypeError"
    ELSE AdapterLoop(k + 1, roots, ann_files, TRUE)

\* ClassificationDatasetAdapter.__init__, lines 29-79: without a data root
\* no labels are found and line 145 asserts
AdapterInit(roots, ann_files) ==
    LET loop == AdapterLoop(1, roots, ann_files, FALSE)
    IN  IF loop /= "ok" THEN loop
        ELSE IF \A k \in 1..Len(roots) : ~EntryTruthy(roots[k])
        THEN "AssertionError"
        ELSE "ok"

\* OTEClassificationDataset.__init__, lines 181-204: line 189 reads .name of
\* every element of labels, line 193 calls get_roi_labels on every item
DatasetInit(ote_dataset, labels, multilabel, keep_empty_label) ==
    IF labels /= "labels" THEN "AttributeError"
    ELSE IF ote_dataset /= "dataset" THEN "AttributeError"
    ELSE "ok"

\* get_task_class(path), lines 221-224: an int has no rsplit, "" splits into
\* one part where two are unpacked
GetTaskClass(path) ==
    CASE path = "int" -> "AttributeError"
      [] path = "empty_str" -> "ValueError"
      [] OTHER -> "ok"

\* reload_hyper_parameters(model_template), line 234
ReloadHyperParameters(model_template) ==
    IF model_template /= "template" THEN "AttributeError" ELSE "ok"

\* generate_label_schema(not_empty_labels, multilabel), lines 162-177, with
\* count the length of a list not_empty_labels: len of an int is a
\* TypeError, the str "unexpected string" is longer than 1, a character of
\* a str has no name (line 171), and a str handed on to LabelGroup (line
\* 175) is taken or rejected outside this source tree
GenerateLabelSchema(not_empty_labels, count, multilabel) ==
    IF not_empty_labels = "int" THEN {"TypeError"}
    ELSE IF not_empty_labels = "labels" /\ count <= 1
    THEN {"AssertionError"}
    ELSE IF not_empty_labels = "str"
    THEN IF EntryTruthy(multilabel) THEN {"AttributeError"}
         ELSE {"ok", "ValueError"}
    ELSE {"ok"}

\* set_values_as_default(parameters), lines 246-252, on the values of a dict:
\* a value is a parameter with value and default_value, or a dict of such
RECURSIVE SetValuesAsDefault(_)
SetValuesAsDefault(parameters) ==
    [k \in 1..Len(parameters) |->
         IF parameters[k].kind = "group"
         THEN [parameters[k] EXCEPT !.items = SetValuesAsDefault(@)]
         ELSE [parameters[k] EXCEPT !.value = parameters[k].default_value]]

EntryCall(fn, args, status, result) ==
    /\ sel.fn = "none"
    /\ sel' = [fn |-> fn, args |-> args, status |-> status,
               result |-> result]
    /\ UNCHANGED <<decoder, fwd, wrapper, calls, layer, task, tree>>

CallAdapterInit(roots, ann_files) ==
    EntryCall("ClassificationDatasetAdapter", roots \o ann_files,
              AdapterInit(roots, ann_files), <<>>)

CallDatasetInit(ote_dataset, labels, multilabel, keep_empty_label) ==
    EntryCall("OTEClassificationDataset",
              <<ote_dataset, labels, multilabel, keep_empty_label>>,
              DatasetInit(ote_dataset, labels, multilabel, keep_empty_label),
              <<>>)

CallGetTaskClass(path) ==
    EntryCall("get_task_class", <<path>>, GetTaskClass(path), <<>>)

CallReloadHyperParameters(model_template) ==
    EntryCall("reload_hyper_parameters", <<model_template>>,
              ReloadHyperParameters(model_template), <<>>)

CallGenerateLabelSchema(not_empty_labels, count, multilabel) ==
    \E status \in GenerateLabelSchema(not_empty_labels, count, multilabel) :
        EntryCall("generate_label_schema", <<not_empty_labels, multilabel>>,
                  status, <<>>)

\* line 247: a str has no values()
CallSetValuesAsDefault(type, parameters) ==
    IF type = "dict"
    THEN EntryCall("set_values_as_default", <<type>>, "ok",
                   SetValuesAsDefault(parameters))
    ELSE EntryCall("set_values_as_default", <<type>>, "AttributeError",
                   <<>>)

(***************************************************************************)
(* nncf_task.py: OTEClassificationNNCFTask.  model is the number of NNCF    *)
(* wrappers around the task's model, compression_ctrl is 0 for None and     *)
(* otherwise the wrapping that created the controller.  output_model is     *)
(* the model entity handed to the optimize call in progress or last made.   *)
(***************************************************************************)
ModelEntity(model_status, model_format, optimization_type, optimization_methods, precision) ==
    [model_status |-> model_status, model_format |-> model_format,
     optimization_type |-> optimization_type,
     optimization_methods |-> optimization_methods,
     precision |-> precision]

NoModelEntity == ModelEntity("none", "none", "none", <<>>, <<>>)

NoCall ==
    [op |-> "none", status |-> "none", ctrl_before |-> 0,
     model_before |-> 0, output_before |-> NoModelEntity,
     aux_loaded |-> FALSE, wrapped |-> FALSE, trained |-> FALSE,
     stopped |-> FALSE, saved |-> FALSE, graph_touched |-> FALSE]

NoTask ==
    [status |-> "none", compression_ctrl |-> 0, model |-> 0,
     loaded_nncf |-> FALSE, dynamic_graph_building |-> TRUE,
     optimization_methods |-> <<>>, precision |-> <<>>,
     ema |-> FALSE, lr_finder |-> FALSE, aux_models |-> 0,
     aux_dicts |-> 0, pc |-> "idle", stop |-> FALSE,
     output_model |-> NoModelEntity, last |-> NoCall]

\* _set_attributes_by_hyperparams, lines 98-115
OptimizationMethods(quantization, pruning) ==
    IF quantization /\ pruning THEN <<"QUANTIZATION", "FILTER_PRUNING">>
    ELSE IF quantization THEN <<"QUANTIZATION">>
    ELSE <<"FILTER_PRUNING">>

Precision(quantization, pruning) ==
    IF quantization THEN <<"INT8">> ELSE <<"FP32">>

\* __init__, lines 50-81, for a task environment whose model is an NNCF
\* model (env_nncf) or an original one; aux_available: the environment
\* model holds weights for every auxiliary model
TaskInit(env_nncf, quantization, pruning, ema, lr_finder, aux_models, aux_available) ==
    /\ task.status = "none"
    /\ IF ~quantization /\ ~pruning
       THEN task' = [NoTask EXCEPT !.status = "RuntimeError"]
       ELSE task' =
                [NoTask EXCEPT
                    !.status = "constructed",
                    !.compression_ctrl = IF env_nncf THEN 1 ELSE 0,
                    !.model = IF env_nncf THEN 1 ELSE 0,
                    !.loaded_nncf = env_nncf,
                    !.optimization_methods =
                        OptimizationMethods(quantization, pruning),
                    !.precision = Precision(quantization, pruning),
                    !.ema = ema, !.lr_finder = lr_finder,
                    !.aux_models = aux_models,
                    !.aux_dicts = IF aux_available THEN aux_models ELSE 0,
                    !.last = [NoCall EXCEPT !.op = "__init__",
                                            !.status = "ok",
                                            !.wrapped = env_nncf]]
    /\ UNCHANGED <<decoder, fwd, wrapper, calls, sel, layer, tree>>

\* a task that never finds itself optimized
AlreadyOptimizedNever(compression_ctrl) == FALSE

\* line 167: if self._compression_ctrl
AlreadyOptimized(compression_ctrl) == compression_ctrl # 0

\* a stop callback that never reports a stop
CheckStopNever(stop) == FALSE

\* line 232: self.stop_callback.check_stop()
CheckStop(stop) == stop

OptimizeCall(output_model) ==
    [NoCall EXCEPT !.op = "optimize",
                   !.ctrl_before = task.compression_ctrl,
                   !.model_before = task.model,
                   !.output_before = output_model]

\* optimize, lines 157-220: the checks, the auxiliary weights, the reset of
\* the stop callback and the wrapping, up to the start of the training.
\* wrap_raises: wrap_nncf_model raises and nothing is assigned.
OptimizeStart(optimization_type, output_model, wrap_raises) ==
    /\ task.status = "constructed"
    /\ task.pc = "idle"
    /\ LET call == OptimizeCall(output_model)
           raised == [call EXCEPT !.status = "RuntimeError"]
       IN  IF optimization_type # "NNCF"
              \/ AlreadyOptimized(task.compression_ctrl)
              \/ task.ema
              \/ task.lr_finder
           THEN task' = [task EXCEPT !.output_model = output_model,
                                     !.last = raised]
           ELSE IF task.aux_models # task.aux_dicts
           THEN task' = [task EXCEPT
                            !.output_model = output_model,
                            !.last = [raised EXCEPT !.aux_loaded = TRUE]]
           ELSE IF wrap_raises
           THEN task' = [task EXCEPT
                            !.output_model = output_model,
                            !.stop = FALSE,
                            !.last = [call EXCEPT !.status = "Exception",
                                                  !.aux_loaded = TRUE]]
           ELSE task' = [task EXCEPT
                            !.output_model = output_model,
                            !.stop = FALSE,
                            !.compression_ctrl = task.model + 1,
                            !.model = task.model + 1,
                            !.pc = "training",
                            !.last = [call EXCEPT !.status = "running",
                                                  !.aux_loaded = TRUE,
                                                  !.wrapped = TRUE]]
    /\ UNCHANGED <<decoder, fwd, wrapper, calls, sel, layer, tree>>

\* the stop callback handed to run_training at line 227 is told to stop
\* while the training runs
CancelTraining ==
    /\ task.pc = "training"
    /\ ~task.stop
    /\ task' = [task EXCEPT !.stop = TRUE]
    /\ UNCHANGED <<decoder, fwd, wrapper, calls, sel, layer, tree>>

\* optimize, lines 221-244, with save_model, lines 246-253: run_training
\* ends, by an exception or normally; the stop check; save_model, which
\* can raise; the five fields of output_model
OptimizeEnd(training_raises, save_raises) ==
    /\ task.pc = "training"
    /\ IF training_raises
       THEN task' = [task EXCEPT
                        !.pc = "idle",
                        !.last = [@ EXCEPT !.status = "Exception"]]
       ELSE IF CheckStop(task.stop)
       THEN task' = [task EXCEPT
                        !.pc = "idle",
                        !.last = [@ EXCEPT !.status = "cancelled",
                                           !.trained = TRUE,
                                           !.stopped = task.stop]]
       ELSE IF save_raises
       THEN task' = [task EXCEPT
                        !.pc = "idle",
                        !.last = [@ EXCEPT !.status = "Exception",
                                           !.trained = TRUE,
                                           !.stopped = task.stop]]
       ELSE task' = [task EXCEPT
                        !.pc = "idle",
                        !.output_model =
                            ModelEntity("SUCCESS", "BASE_FRAMEWORK", "NNCF",
                                        task.optimization_methods,
                                        task.precision),
                        !.last = [@ EXCEPT !.status = "ok",
                                           !.trained = TRUE,
                                           !.stopped = task.stop,
                                           !.saved = TRUE]]
    /\ UNCHANGED <<decoder, fwd, wrapper, calls, sel, layer, tree>>

\* export, lines 255-262; export_raises: the export of the base class
\* raises
Export(export_raises) ==
    /\ task.status = "constructed"
    /\ task.pc = "idle"
    /\ LET call == [NoCall EXCEPT
                       !.op = "export",
                       !.status = IF export_raises THEN "Exception"
                                  ELSE "ok",
                       !.ctrl_before = task.compression_ctrl,
                       !.model_before = task.model,
                       !.output_before = task.output_model]
       IN  IF task.compression_ctrl = 0
           THEN task' = [task EXCEPT !.last = call]
           ELSE task' = [task EXCEPT
                            !.dynamic_graph_building = ~export_raises,
                            !.last = [call EXCEPT !.graph_touched = TRUE]]
    /\ UNCHANGED <<decoder, fwd, wrapper, calls, sel, layer, tree>>

(***************************************************************************)
(* utils/tools.py: EvalModeSetter on one module.  The modules of the tree   *)
(* are numbered in the order of named_modules(), parents before children;   *)
(* parent[i] is the module that holds module i, 0 for the root.             *)
(***************************************************************************)
NoTree ==
    [status |-> "none", parent |-> <<>>, matched |-> <<>>,
     before |-> <<>>, training |-> <<>>, modes_storage |-> <<>>,
     raised |-> FALSE]

\* module j is module i or lies below it
RECURSIVE InSubtree(_, _, _)
InSubtree(parent, i, j) ==
    IF j = i THEN TRUE
    ELSE IF j < i \/ j = 0 THEN FALSE
    ELSE InSubtree(parent, i, parent[j])

\* nn.Module.train(mode) on module i: the flag of the module and of every
\* module below it
Train(training, parent, i, mode) ==
    [j \in 1..Len(training) |->
         IF InSubtree(parent, i, j) THEN mode ELSE training[j]]

Stored(flag) == IF flag THEN "True" ELSE "False"

\* EvalModeSetter(module, m_type), lines 193-202: matched[i] tells
\* whether module i is an instance of one of the types
SetterInit(parent, matched, training) ==
    /\ tree.status = "none"
    /\ tree' = [NoTree EXCEPT
                    !.status = "constructed", !.parent = parent,
                    !.matched = matched, !.before = training,
                    !.training = training,
                    !.modes_storage = [i \in 1..Len(parent) |-> "absent"]]
    /\ UNCHANGED <<decoder, fwd, wrapper, calls, sel, layer, task>>

\* lines 208-212 from module i on
RECURSIVE EnterLoop(_, _, _, _, _)
EnterLoop(i, parent, matched, training, modes_storage) ==
    IF i > Len(parent)
    THEN [training |-> training, modes_storage |-> modes_storage]
    ELSE IF matched[i]
    THEN EnterLoop(i + 1, parent, matched,
                   Train(training, parent, i, FALSE),
                   [modes_storage EXCEPT ![i] = Stored(training[i])])
    ELSE EnterLoop(i + 1, parent, matched, training, modes_storage)

\* __enter__, lines 204-214
Enter ==
    /\ tree.status = "constructed"
    /\ LET done == EnterLoop(1, tree.parent, tree.matched, tree.training,
                             tree.modes_storage)
       IN  tree' = [tree EXCEPT !.status = "entered",
                                !.training = done.training,
                                !.modes_storage = done.modes_storage]
    /\ UNCHANGED <<decoder, fwd, wrapper, calls, sel, layer, task>>

\* lines 220-222 from module i on
RECURSIVE ExitLoop(_, _, _, _)
ExitLoop(i, parent, training, modes_storage) ==
    IF i > Len(parent) THEN training
    ELSE IF modes_storage[i] # "absent"
    THEN ExitLoop(i + 1, parent,
                  Train(training, parent, i, modes_storage[i] = "True"),
                  modes_storage)
    ELSE ExitLoop(i + 1, parent, training, modes_storage)

\* __exit__, lines 216-222, after a body that returned or raised
Exit(raised) ==
    /\ tree.status = "entered"
    /\ tree' = [tree EXCEPT
                    !.status = "exited", !.raised = raised,
                    !.training = ExitLoop(1, tree.parent, tree.training,
                                          tree.modes_storage)]
    /\ UNCHANGED <<decoder, fwd, wrapper, calls, sel, layer, task>>

(***************************************************************************)
(* Inputs                                                                  *)
(***************************************************************************)
Threads == 1..NumThreads

Vectors(vals, maxlen) == UNION {[1..n -> vals] : n \in 1..maxlen}

\* logits handed to the selectors: ties, neighbours that exp maps to the same
\* value (0 and 1), and values that differ clearly
LogitVals == {-1000000, 0, 1, 500000, 1000000}

\* raw outputs handed to postprocess: sums of 1.00005, 1.010005, 1.010011, 3.0,
\* and [2.0, -1.0], which sums to 1.0 without being a distribution
OutputVals == {-1000000, 0, 500000, 500050, 510005, 510011, 2000000}

ConcVals == {0, 500000, 2000000}

\* raw logits [2.0, -2.0, 0.0, 3.0, -0.1]
ExampleLogits == <<2000000, -2000000, 0, 3000000, -100000>>

MultilabelInputs == Vectors(LogitVals, MaxLen) \cup {ExampleLogits}

PosThrChoices == {0, PosThrDefault, One}

\* finite logits for softmax: those of the selectors, and 800.0 and -800.0,
\* whose exponentials leave the range of a float
SoftmaxVals == LogitVals \cup {800000000, -800000000}

\* label lists: class index i carries label 100 + i, or the lists reversed
LabelLists(n) == {[i \in 1..n |-> 100 + i], [i \in 1..n |-> 100 + n - i]}

\* arguments of any type for the functions of utils.py
TypedLogits ==
    {NdArray(v) : v \in Vectors(ConcVals, MaxConcLen)} \cup {UnexpectedStr}

TypedLabels(logits) ==
    {UnexpectedLabels}
    \cup (IF logits.type = "ndarray"
          THEN {LabelList([i \in 1..Len(logits.value) |-> 100 + i], bad) :
                bad \in {{}, {1}, {Len(logits.value)}}}
          ELSE {LabelList(<<101>>, {})})

TypedPosThr == {Float(PosThrDefault), UnexpectedPosThr}

\* arguments of the dataset classes and helpers
PathTypes == {"none", "path", "empty_str", "int"}

Subsets == 1..3

Parameter(value, default_value) ==
    [kind |-> "leaf", value |-> value, default_value |-> default_value,
     items |-> <<>>]

Parameters ==
    {Parameter(v, d) : v \in BOOLEAN, d \in BOOLEAN}

ParameterDicts ==
    Vectors(Parameters
            \cup {[kind |-> "group", value |-> FALSE,
                   default_value |-> FALSE, items |-> <<q>>] :
                  q \in Parameters},
            MaxConcLen)

TypedActivate == {Bool(TRUE), Bool(FALSE), UnexpectedActivate}

NumClassesChoices ==
    (1..MaxSmallClasses) \cup {MaxNumClasses - 1, MaxNumClasses}

NumGroupsChoices == -2..MaxNumGroups

\* num_classes handed to the builders: class counts, 0 and negative numbers
BuildClassesChoices == (-MaxFwdGroups)..MaxFwdClasses

\* group embeddings of one sample: one cell differs from all the others
HChoices(groups, width) ==
    {[g \in 1..groups |-> [d \in 1..width |->
          IF g = hg /\ d = hd THEN v ELSE base]] :
     hg \in 1..groups, hd \in 1..width, v \in {-1, 2}, base \in {0, 1}}

\* feature maps of the samples of a batch
BatchChoices(groups, width) ==
    {h \in HChoices(groups, width) : h[1][1] \in {-1, 2}}

Batches(groups, width) ==
    UNION {[1..bs -> BatchChoices(groups, width)] : bs \in 1..MaxBatch}

(***************************************************************************)
(* Specifications                                                          *)
(***************************************************************************)
InitObjects ==
    /\ decoder = NoDecoder
    /\ fwd = NoForward
    /\ calls = [t \in Threads |-> IdleCall]
    /\ sel = NoSel

InitOthers ==
    /\ layer = NoLayer
    /\ task = NoTask
    /\ tree = NoTree

Init ==
    /\ InitObjects
    /\ InitOthers
    /\ wrapper = [multilabel |-> FALSE, topk |-> 1, activate |-> FALSE]

InitWrapper ==
    /\ InitObjects
    /\ InitOthers
    /\ wrapper \in [multilabel : BOOLEAN, topk : 1..MaxTopK,
                    activate : {FALSE}]

\* MLDecoder configurations, up to the largest numbers of classes and groups
NextConfig ==
    \/ \E num_classes \in NumClassesChoices,
          num_of_groups \in NumGroupsChoices :
           Construct(num_classes, num_of_groups, EmbedDim, 3, 0)
    \/ ForwardShape

SpecConfig == Init /\ [][NextConfig]_vars

\* MLDecoder.forward on small decoders, with the logits computed
NextForward ==
    \/ \E num_classes \in 1..MaxFwdClasses,
          num_of_groups \in -1..MaxFwdGroups,
          dims \in {2, 3}, seed \in {0, 5} :
           Construct(num_classes, num_of_groups, EmbedDim, dims, seed)
    \/ \E h \in HChoices(decoder.embed_len_decoder,
                         decoder.decoder_embedding) : Forward(h)

SpecForward == Init /\ [][NextForward]_vars

\* MLDecoder.forward on batches of several samples
NextBatch ==
    \/ \E num_classes \in 1..MaxFwdClasses,
          num_of_groups \in -1..MaxFwdGroups,
          dims \in {2, 3}, seed \in {0, 5} :
           Construct(num_classes, num_of_groups, EmbedDim, dims, seed)
    \/ \E xs \in Batches(decoder.embed_len_decoder,
                          decoder.decoder_embedding) : ForwardBatch(xs)

SpecBatch == Init /\ [][NextBatch]_vars

\* the ways to build a decoder head, numbers that are no class count included
NextBuild ==
    \/ \E backbone_num_classes \in BuildClassesChoices,
          num_classes \in BuildClassesChoices,
          num_of_groups \in -2..MaxFwdGroups :
           Build(backbone_num_classes, num_classes, num_of_groups, EmbedDim)
    \/ \E model_num_classes \in BuildClassesChoices,
          num_classes \in BuildClassesChoices,
          num_of_groups \in -2..MaxFwdGroups :
           AddHead(model_num_classes, num_classes, num_of_groups)
    \/ \E num_classes \in BuildClassesChoices,
          num_of_groups \in -2..MaxFwdGroups :
           Construct(num_classes, num_of_groups, EmbedDim, 3, 0)
    \/ ForwardShape

SpecBuild == Init /\ [][NextBuild]_vars

\* the selectors as pure functions of their arguments
NextSelect ==
    \/ \E logits \in Vectors(LogitVals, MaxLen), activate \in BOOLEAN :
           \E labels \in LabelLists(Len(logits)) :
               UtilsMulticlass(logits, labels, activate)
    \/ \E logits \in Vectors(LogitVals, MaxLen), activate \in BOOLEAN,
          topk \in 0..(MaxLen + 1) :
           WrapperMulticlass(logits, topk, activate)

SpecSelect == Init /\ [][NextSelect]_vars

\* the selectors that attach labels, and the multi-label selectors
NextPredict ==
    \/ \E logits \in Vectors(LogitVals, MaxLen), activate \in BOOLEAN :
           \E labels \in LabelLists(Len(logits)) :
               UtilsMulticlass(logits, labels, activate)
    \/ \E logits \in MultilabelInputs, activate \in BOOLEAN,
          pos_thr \in PosThrChoices :
           \E labels \in LabelLists(Len(logits)) :
               UtilsMultilabel(logits, labels, pos_thr, activate)
    \/ \E logits \in MultilabelInputs, activate \in BOOLEAN,
          pos_thr \in PosThrChoices :
           WrapperMultilabelCall(logits, pos_thr, activate)

SpecPredict == Init /\ [][NextPredict]_vars

\* a multi-class selector called twice by one caller with the same arguments
NextTwice ==
    \/ \E logits \in Vectors(LogitVals, MaxLen), activate \in BOOLEAN :
           \E labels \in LabelLists(Len(logits)) :
               UtilsMulticlass(logits, labels, activate)
    \/ UtilsMulticlassAgain
    \/ \E logits \in Vectors(ConcVals, MaxLen), topk \in 1..MaxTopK,
          activate \in BOOLEAN :
           WrapperMulticlass(logits, topk, activate)
    \/ WrapperMulticlassAgain

SpecTwice == Init /\ [][NextTwice]_vars

\* softmax_numpy as a pure function of its argument
NextSoftmax == \E x \in Vectors(SoftmaxVals, MaxLen) : Softmax(x)

SpecSoftmax == Init /\ [][NextSoftmax]_vars

\* the functions of utils.py called with arguments of any type
NextTyped ==
    \/ \E x \in TypedLogits : CallSigmoid(x)
    \/ \E x \in TypedLogits : CallSoftmax(x)
    \/ \E logits \in TypedLogits, activate \in TypedActivate :
           \E labels \in TypedLabels(logits) :
               CallMulticlass(logits, labels, activate)
    \/ \E logits \in TypedLogits, activate \in TypedActivate,
          pos_thr \in TypedPosThr :
           \E labels \in TypedLabels(logits) :
               CallMultilabel(logits, labels, pos_thr, activate)

SpecTyped == Init /\ [][NextTyped]_vars

\* the dataset classes and helpers of utils.py called with arguments of any
\* type
NextEntry ==
    \/ \E roots \in [Subsets -> PathTypes],
          ann_files \in [Subsets -> PathTypes] :
           CallAdapterInit(roots, ann_files)
    \/ \E ote_dataset \in {"dataset", "str"}, labels \in {"labels", "str"},
          multilabel \in {"bool", "str"},
          keep_empty_label \in {"bool", "str"} :
           CallDatasetInit(ote_dataset, labels, multilabel, keep_empty_label)
    \/ \E path \in {"path", "empty_str", "int"} : CallGetTaskClass(path)
    \/ \E model_template \in {"template", "str"} :
           CallReloadHyperParameters(model_template)
    \/ \E not_empty_labels \in {"labels", "str", "int"},
          count \in 1..MaxConcLen, multilabel \in {"none", "bool", "str"} :
           CallGenerateLabelSchema(not_empty_labels, count, multilabel)
    \/ \E parameters \in ParameterDicts :
           CallSetValuesAsDefault("dict", parameters)
    \/ CallSetValuesAsDefault("str", <<>>)

SpecEntry == Init /\ [][NextEntry]_vars

\* the module trees of n modules, numbered as named_modules() visits them:
\* the module that holds module i is module i - 1 or a module above it
Trees(n) ==
    {parent \in [1..n -> 0..(n - 1)] :
        /\ parent[1] = 0
        /\ \A i \in 2..n : /\ parent[i] >= 1
                            /\ InSubtree(parent, parent[i], i - 1)}

\* EvalModeSetter on any tree, any training flags and any matched modules
NextTree ==
    \/ \E n \in 1..MaxModules :
           \E parent \in Trees(n), matched \in [1..n -> BOOLEAN],
              training \in [1..n -> BOOLEAN] :
               SetterInit(parent, matched, training)
    \/ Enter
    \/ \E raised \in BOOLEAN : Exit(raised)

SpecTree == Init /\ [][NextTree]_vars

\* output models handed to optimize: a new one, and one used before
OutputModels ==
    {ModelEntity("NOT_READY", "OPENVINO", "NONE", <<>>, <<>>),
     ModelEntity("FAILED", "OPENVINO", "MO", <<"QUANTIZATION">>,
                 <<"FP16">>)}

\* the life of one NNCF task
NextTask ==
    \/ \E env_nncf \in BOOLEAN, quantization \in BOOLEAN,
          pruning \in BOOLEAN, ema \in BOOLEAN, lr_finder \in BOOLEAN,
          aux_models \in 0..MaxAuxModels, aux_available \in BOOLEAN :
           TaskInit(env_nncf, quantization, pruning, ema, lr_finder,
                    aux_models, aux_available)
    \/ \E optimization_type \in {"NNCF", "POT"},
          output_model \in OutputModels, wrap_raises \in BOOLEAN :
           OptimizeStart(optimization_type, output_model, wrap_raises)
    \/ CancelTraining
    \/ \E training_raises \in BOOLEAN, save_raises \in BOOLEAN :
           OptimizeEnd(training_raises, save_raises)
    \/ \E export_raises \in BOOLEAN : Export(export_raises)

SpecTask == Init /\ [][NextTask]_vars

\* MLDecoder.forward in either mode, with losses the head supports and
\* losses it does not
Losses == {"asl", "bce", "am_binary", "softmax", "am_softmax"}

NextMode ==
    \/ \E num_classes \in 1..MaxFwdClasses,
          num_of_groups \in -1..MaxFwdGroups, seed \in {0, 5} :
           Construct(num_classes, num_of_groups, EmbedDim, 3, seed)
    \/ \E h \in HChoices(decoder.embed_len_decoder,
                         decoder.decoder_embedding),
          training \in BOOLEAN, loss \in Losses :
           ForwardInMode(h, training, loss)

SpecMode == Init /\ [][NextMode]_vars

\* one decoder layer call on any queries and memory, in either mode
NextLayer ==
    \/ \E q \in 1..MaxTensors, m \in 1..MaxTensors, training \in BOOLEAN :
           LayerStart(Input("tgt", q), Input("memory", m), training)
    \/ SelfStage
    \/ Attention
    \/ AttentionStage
    \/ FeedForward
    \/ FeedForwardStage

SpecLayer == Init /\ [][NextLayer]_vars

\* postprocess calls one after the other on one NewClassification
NextSeq ==
    \/ \E outputs \in Vectors(OutputVals, MaxLen) : Start(1, outputs)
    \/ Reset(1)
    \/ Check(1)
    \/ Select(1)
    \/ Return(1)

SpecSeq == InitWrapper /\ [][NextSeq]_vars

\* postprocess calls of several threads on one NewClassification
NextConc ==
    \E t \in Threads :
        \/ \E outputs \in Vectors(ConcVals, MaxConcLen) : Start(t, outputs)
        \/ Reset(t)
        \/ Check(t)
        \/ Select(t)
        \/ Return(t)

SpecConc == InitWrapper /\ [][NextConc]_vars


(***************************************************************************)
(* Properties                                                              *)
(***************************************************************************)

\* C1: for num_classes >= 1 and num_of_groups negative or positive, the
\* groups times the duplicate factor cover the classes, and forward returns
\* exactly num_classes logits per sample.
C1_GroupsCoverClasses ==
    (/\ decoder.status = "built"
     /\ decoder.num_classes >= 1
     /\ decoder.num_of_groups # 0)
    => /\ decoder.embed_len_decoder * decoder.duplicate_factor
              >= decoder.num_classes
       /\ fwd.status # "none"
              => fwd.status = "ok" /\ fwd.out_len = decoder.num_classes

\* C2: for 1 <= G <= num_classes the duplicate factor is the smallest d with
\* G * d >= num_classes.
C2_DuplicateFactorIsCeil ==
    (/\ decoder.status = "built"
     /\ 1 <= decoder.embed_len_decoder
     /\ decoder.embed_len_decoder <= decoder.num_classes)
    => /\ decoder.embed_len_decoder * decoder.duplicate_factor
              >= decoder.num_classes
       /\ decoder.embed_len_decoder * (decoder.duplicate_factor - 1)
              < decoder.num_classes

\* C3: G is min(num_of_groups, num_classes) for num_of_groups > 0 and
\* min(100, num_classes) for every other num_of_groups, 0 included; G >= 1.
C3_NumberOfGroups ==
    decoder.status # "none"
    => /\ decoder.embed_len_decoder =
              IF decoder.num_of_groups > 0
              THEN Min(decoder.num_of_groups, decoder.num_classes)
              ELSE Min(DefaultGroups, decoder.num_classes)
       /\ decoder.embed_len_decoder >= 1

\* C4: the logit of class c is dot(h[g], W_g[:, j]) + bias[c] with
\* g = c div duplicate_factor and j = c mod duplicate_factor, W_g being group
\* g's slice of a 3D tensor and the shared slice of a 2D one; there are
\* exactly num_classes logits, the slots beyond them are dropped.
C4_ExpectedLogit(c) ==
    LET g == c \div decoder.duplicate_factor
        j == c % decoder.duplicate_factor
        w == decoder.duplicate_pooling
        slice == IF w.dims = 3 THEN g + 1 ELSE 1
    IN  SumSeq([d \in 1..decoder.decoder_embedding |->
                    fwd.h[g + 1][d] * PoolingAt(w, slice, d, j + 1)])
        + BiasAt(decoder.duplicate_pooling_bias, c)

C4_LogitOfClass ==
    fwd.status = "ok"
    => /\ Len(fwd.logits) = decoder.num_classes
       /\ \A c \in 0..(decoder.num_classes - 1) :
              fwd.logits[c + 1] = C4_ExpectedLogit(c)

\* a forward on a 3D tensor with several groups of several slots, the last
\* slots being dropped
C4_Witness ==
    /\ fwd.status = "ok"
    /\ decoder.duplicate_pooling.dims = 3
    /\ decoder.embed_len_decoder >= 2
    /\ decoder.duplicate_factor >= 2
    /\ decoder.embed_len_decoder * decoder.duplicate_factor
           > decoder.num_classes
    /\ fwd.h[2][1] = 2

\* C5 as stated: activation is skipped exactly when |sum - 1.0| <= 0.01.
C5_AbsoluteToleranceOnly ==
    \A t \in Threads :
        calls[t].pc = "done"
        => (calls[t].used_activate = FALSE
                <=> Abs(SumSeq(calls[t].outputs) - One) <= AbsTol)

\* C5 amended: activation is skipped exactly when
\* |sum - 1.0| <= 0.01 + 1e-5 * 1.0 (np.isclose adds its default relative
\* tolerance to atol); a sum of 1.00005 skips and a sum of 3.0 activates.
C5_ToleranceWithRtol ==
    \A t \in Threads :
        calls[t].pc = "done"
        => LET s == SumSeq(calls[t].outputs)
           IN  /\ calls[t].used_activate = FALSE
                      <=> Abs(s - One) <= AbsTol + One \div RtolInverse
               /\ s = One + 50 => calls[t].used_activate = FALSE
               /\ s = 3 * One => calls[t].used_activate = TRUE

\* a call whose outputs sum to 1.010005 has skipped activation
C5_Witness ==
    /\ calls[1].pc = "done"
    /\ SumSeq(calls[1].outputs) = One + AbsTol + 5
    /\ calls[1].used_activate = FALSE

\* C6: with calls interleaved at the accesses to self.activate, every call
\* returns a result it can return when run alone.
C6_InterleavedCallsIndependent ==
    \A t \in Threads :
        calls[t].pc = "done"
        => [status |-> calls[t].status, result |-> calls[t].result]
               \in PostprocessResults(calls[t].outputs, wrapper.multilabel,
                                      wrapper.topk,
                                      NeedsActivation(calls[t].outputs))

\* C7: in a sequential series of calls the activation decision a call uses
\* is the one its own outputs give, whatever self.activate was before it.
C7_DecisionFromOwnOutputs ==
    \A t \in Threads :
        calls[t].pc = "done"
        => calls[t].used_activate = NeedsActivation(calls[t].outputs)

\* a call that skipped activation although the call before it left
\* self.activate set
C7_Witness ==
    /\ calls[1].pc = "done"
    /\ calls[1].entry_activate = TRUE
    /\ calls[1].used_activate = FALSE

Scores(logits, activate) ==
    IF activate THEN softmax_numpy(logits) ELSE logits

LowestMaxIndex(a) ==
    CHOOSE i \in 1..Len(a) :
        /\ \A j \in 1..Len(a) : a[j] <= a[i]
        /\ \A j \in 1..(i - 1) : a[j] < a[i]

\* C8 as stated: utils.get_multiclass_predictions returns one prediction, for
\* the lowest index at which the (possibly activated) score is maximal, with
\* the score at that index.
C8_LowestIndexOfActivatedMax ==
    sel.fn = "utils_multiclass"
    => LET scores == Scores(sel.logits, sel.activate)
           i == LowestMaxIndex(scores)
       IN  /\ Len(sel.result) = 1
           /\ sel.result[1].label = sel.labels[i]
           /\ sel.result[1].probability = scores[i]

\* C8 amended: the prediction is for the lowest index at which the logit as
\* passed (before activation) is maximal; its probability is the (possibly
\* activated) score at that index, which no other score exceeds.
C8_LowestIndexOfRawMax ==
    sel.fn = "utils_multiclass"
    => LET scores == Scores(sel.logits, sel.activate)
           i == LowestMaxIndex(sel.logits)
       IN  /\ Len(sel.result) = 1
           /\ sel.result[1].label = sel.labels[i]
           /\ sel.result[1].probability = scores[i]
           /\ \A j \in 1..Len(scores) : scores[j] <= scores[i]
           /\ (sel.logits = <<500000, 500000, 0>> /\ ~sel.activate)
                  => sel.result[1].label = sel.labels[1]

\* scores [0.5, 0.5, 0.1]-like: a tie at the maximum, the first index returned
C8_Witness ==
    /\ sel.fn = "utils_multiclass"
    /\ sel.activate
    /\ sel.logits = <<500000, 500000, 0>>
    /\ sel.result[1].label = sel.labels[1]

\* C9: for 1 <= topk <= n the wrapper's selector returns topk pairs with
\* distinct indices, each with the score of its index, in non-increasing
\* order of score, and no class left out scores higher than a returned one.
C9_TopKSelection ==
    (/\ sel.fn = "wrapper_multiclass"
     /\ 1 <= sel.topk
     /\ sel.topk <= Len(sel.logits))
    => LET scores == Scores(sel.logits, sel.activate)
           r == sel.result
           returned == {r[x].index : x \in 1..Len(r)}
       IN  /\ sel.status = "ok"
           /\ Len(r) = sel.topk
           /\ \A x, y \in 1..Len(r) : x # y => r[x].index # r[y].index
           /\ \A x \in 1..Len(r) :
                  /\ r[x].index \in 0..(Len(scores) - 1)
                  /\ r[x].score = scores[r[x].index + 1]
           /\ \A x \in 1..(Len(r) - 1) : r[x].score >= r[x + 1].score
           /\ \A x \in 1..Len(r) :
                  \A j \in 0..(Len(scores) - 1) :
                      j \notin returned => scores[j + 1] <= r[x].score

\* the best two of three activated scores that all differ
C9_Witness ==
    /\ sel.fn = "wrapper_multiclass"
    /\ sel.status = "ok"
    /\ sel.activate
    /\ sel.topk = 2
    /\ sel.logits = <<0, 1000000, 500000>>
    /\ sel.result[1].index = 1
    /\ sel.result[2].index = 2

\* C10: equal scores are tie-broken by lowest index, among the returned pairs
\* and between a returned and a left-out class.
C10_TieBreakLowestIndex ==
    (/\ sel.fn = "wrapper_multiclass"
     /\ sel.status = "ok"
     /\ 1 <= sel.topk)
    => LET scores == Scores(sel.logits, sel.activate)
           r == sel.result
           returned == {r[x].index : x \in 1..Len(r)}
       IN  /\ \A x, y \in 1..Len(r) :
                  (x < y /\ r[x].score = r[y].score)
                      => r[x].index < r[y].index
           /\ \A x \in 1..Len(r) :
                  \A j \in 0..(Len(scores) - 1) :
                      (j \notin returned /\ scores[j + 1] = r[x].score)
                          => r[x].index < j

\* The multi-label scores, and the classes above the threshold in ascending
\* index order
MultilabelScores(logits, activate) ==
    IF activate THEN sigmoid_numpy(logits) ELSE logits

AboveThreshold(scores, pos_thr) ==
    {i \in 1..Len(scores) : scores[i] > pos_thr}

Ascending(S) ==
    CHOOSE f \in [1..Cardinality(S) -> S] :
        \A a, b \in 1..Cardinality(S) : a < b => f[a] < f[b]

MultilabelCall == sel.fn \in {"utils_multilabel", "wrapper_multilabel"}

\* C11: both get_multilabel_predictions return exactly the classes whose
\* (possibly activated) score is strictly greater than pos_thr, each once, in
\* ascending class-index order and without a cap; a class whose score equals
\* pos_thr is not returned.
C11_StrictlyAboveThreshold ==
    MultilabelCall =>
        LET scores == MultilabelScores(sel.logits, sel.activate)
            above == Ascending(AboveThreshold(scores, sel.pos_thr))
        IN  /\ Len(sel.result) = Len(above)
            /\ \A r \in 1..Len(above) :
                   IF sel.fn = "wrapper_multilabel"
                   THEN sel.result[r] = [index |-> above[r] - 1,
                                         score |-> scores[above[r]]]
                   ELSE sel.result[r] = [label |-> sel.labels[above[r]],
                                         probability |-> scores[above[r]]]

C11_Witness ==
    /\ sel.fn = "wrapper_multilabel"
    /\ ~sel.activate
    /\ sel.pos_thr = PosThrDefault
    /\ sel.logits = <<500000, 1000000, 500000>>
    /\ sel.result = <<[index |-> 1, score |-> 1000000]>>

\* C12: when no class has a score above pos_thr, the multi-label selectors
\* return the empty list: no error and no fallback label.
C12_EmptyWhenNoneAbove ==
    (/\ MultilabelCall
     /\ AboveThreshold(MultilabelScores(sel.logits, sel.activate),
                       sel.pos_thr) = {})
        => sel.status = "ok" /\ sel.result = <<>>

C12_Witness ==
    /\ MultilabelCall
    /\ sel.activate
    /\ Len(sel.logits) = MaxLen
    /\ sel.pos_thr = One
    /\ sel.status = "ok"
    /\ sel.result = <<>>

SelectedClasses ==
    IF sel.fn = "wrapper_multilabel"
    THEN {sel.result[r].index + 1 : r \in 1..Len(sel.result)}
    ELSE {i \in 1..Len(sel.logits) :
              \E r \in 1..Len(sel.result) :
                  sel.result[r].label = sel.labels[i]}

SigmoidAtDefaultThreshold ==
    MultilabelCall /\ sel.activate /\ sel.pos_thr = PosThrDefault

\* C13 as stated: with activate = true and pos_thr = 0.5 the multi-label
\* selector selects class i exactly when its raw logit is greater than 0.
C13_SelectedIffPositiveLogit ==
    SigmoidAtDefaultThreshold =>
        SelectedClasses = {i \in 1..Len(sel.logits) : sel.logits[i] > 0}

\* C13 amended: with activate = true and pos_thr = 0.5 every selected class
\* has a raw logit greater than 0, a class with logit 0 or less is never
\* selected, and a class with a positive logit is selected unless its sigmoid
\* rounds to exactly 0.5; the logits [2.0, -2.0, 0.0, 3.0, -0.1] select
\* exactly the classes 0 and 3.
C13_SelectedOnlyIfPositiveLogit ==
    SigmoidAtDefaultThreshold =>
        /\ \A i \in SelectedClasses : sel.logits[i] > 0
        /\ \A i \in 1..Len(sel.logits) :
               (sel.logits[i] > 0 /\ i \notin SelectedClasses)
                   => sigmoid_numpy(sel.logits)[i] = PosThrDefault
        /\ sel.logits = ExampleLogits => SelectedClasses = {1, 4}

C13_Witness ==
    /\ SigmoidAtDefaultThreshold
    /\ sel.fn = "utils_multilabel"
    /\ sel.logits = ExampleLogits
    /\ Len(sel.result) = 2
    /\ sel.result[1].label = sel.labels[1]
    /\ sel.result[2].label = sel.labels[4]

\* C17: the selectors of utils.py leave the caller's label list as it was and
\* attach labels by position: get_multiclass_predictions returns
\* labels[argmax], get_multilabel_predictions returns labels[i] for each
\* selected class i.
C17_LabelsByPosition ==
    /\ sel.fn = "utils_multiclass" =>
           /\ sel.labels_after = sel.labels
           /\ sel.result[1].label = sel.labels[LowestMaxIndex(sel.logits)]
    /\ sel.fn = "utils_multilabel" =>
           LET above == Ascending(AboveThreshold(
                            MultilabelScores(sel.logits, sel.activate),
                            sel.pos_thr))
           IN  /\ sel.labels_after = sel.labels
               /\ Len(sel.result) = Len(above)
               /\ \A r \in 1..Len(above) :
                      sel.result[r].label = sel.labels[above[r]]

C17_Witness ==
    /\ sel.fn = "utils_multilabel"
    /\ sel.labels = <<102, 101, 100>>
    /\ sel.labels_after = <<102, 101, 100>>
    /\ Len(sel.result) = 2
    /\ sel.result[1].label = 101
    /\ sel.result[2].label = 100

ScoresOf(result) == [r \in 1..Len(result) |-> result[r].score]

\* C14: multi-class selection is idempotent: a second call with the same
\* logits array, labels and activate flag returns the same (label,
\* probability) result, and the caller's logits array is the same after each
\* call (softmax works on an array of its own).  Where the wrapper's scores
\* tie, the order among the tied indices is left open by this model, so the
\* scores of the two results are compared there.
C14_SecondCallSameResult ==
    /\ sel.fn = "utils_multiclass" =>
           /\ sel.logits_after = sel.logits
           /\ sel.ncalls = 2 => sel.second = sel.result
    /\ (sel.fn = "wrapper_multiclass" /\ sel.status = "ok") =>
           /\ sel.logits_after = sel.logits
           /\ sel.ncalls = 2 =>
                  /\ ScoresOf(sel.second) = ScoresOf(sel.result)
                  /\ Cardinality(TopKResults(sel.logits, sel.topk,
                                             sel.activate)) = 1
                         => sel.second = sel.result

C14_Witness ==
    /\ sel.fn = "utils_multiclass"
    /\ sel.activate
    /\ sel.ncalls = 2
    /\ sel.logits = <<0, 1000000>>
    /\ sel.logits_after = <<0, 1000000>>
    /\ sel.second = sel.result
    /\ sel.result[1].probability < One

\* C15: every score in the pairs that NewClassification.postprocess returns
\* in multi-class mode lies within [0, 1], whichever activation branch ran.
C15_MulticlassScoreInUnitInterval ==
    \A t \in Threads :
        (/\ calls[t].pc = "done"
         /\ calls[t].status = "ok"
         /\ ~wrapper.multilabel)
            => \A r \in 1..Len(calls[t].result) :
                   /\ calls[t].result[r].score >= 0
                   /\ calls[t].result[r].score <= One

\* C16: MLDecoder.forward leaves query_embed.weight, duplicate_pooling,
\* duplicate_pooling_bias and the projector weights as they were: the
\* in-place operations of a call (the in-place ReLU, the slice assignment
\* into out_extrap, the in-place bias add) write only to tensors created in
\* that call.
C16_ForwardLeavesParameters ==
    /\ decoder.writes = NoWrites
    /\ \A storage \in fwd.written : storage.owner = "call"

C16_Witness ==
    /\ fwd.status = "ok"
    /\ decoder.embed_len_decoder >= 2
    /\ {storage.name : storage \in fwd.written}
           = {"embedding_spatial_786", "out_extrap"}
    /\ decoder.writes = NoWrites

\* the logits of a sample as a function of its own feature map and the
\* weights
OwnLogit(x, c) ==
    LET g == c \div decoder.duplicate_factor
        j == c % decoder.duplicate_factor
        w == decoder.duplicate_pooling
        slice == IF w.dims = 3 THEN g + 1 ELSE 1
    IN  SumSeq([d \in 1..decoder.decoder_embedding |->
                    DecoderOutput(x)[g + 1][d]
                        * PoolingAt(w, slice, d, j + 1)])
        + BiasAt(decoder.duplicate_pooling_bias, c)

C19_SoftmaxIsDistribution ==
    sel.fn = "softmax_numpy" =>
        /\ \A i \in 1..Len(sel.result) :
               /\ sel.result[i] /= NaN
               /\ sel.result[i] >= 0
               /\ sel.result[i] <= One
        /\ Abs(SumSeq(sel.result) - One) <= One \div 100000

InvalidRequested ==
    decoder.built_by /= "none" /\ decoder.requested_num_classes <= 0

BackboneSentinel ==
    /\ decoder.built_by \in {"build_ml_decoder_model", "add_ml_decoder_head"}
    /\ decoder.requested_num_classes = -1

UnexpectedArgument ==
    /\ sel.fn \in {"sigmoid_numpy", "softmax_numpy",
                   "get_multiclass_predictions",
                   "get_multilabel_predictions"}
    /\ "args" \in DOMAIN sel
    /\ \/ sel.args.logits.type = "str"
       \/ sel.args.labels.type = "str"
       \/ sel.args.labels.bad /= {}
       \/ sel.args.pos_thr.type = "str"
       \/ sel.args.activate.type = "str"

\* C21: sigmoid_numpy, softmax_numpy, get_multiclass_predictions and
\* get_multilabel_predictions of utils.py raise ValueError whenever an
\* argument has an unexpected type: logits or x that is no ndarray, labels
\* that is no list of labels (a list with one element that is no label
\* included), a pos_thr that is no number, an activate that is no bool.
C21_UnexpectedTypeRaisesValueError ==
    UnexpectedArgument => sel.status = "ValueError"

EntryPoints ==
    {"ClassificationDatasetAdapter", "OTEClassificationDataset",
     "get_task_class", "reload_hyper_parameters", "generate_label_schema",
     "set_values_as_default"}

\* C22: the dataset classes and helpers of utils.py raise ValueError, and no
\* other exception, when a parameter has an unexpected type or a path
\* string is empty.
C22_EntryPointsRaiseValueError ==
    sel.fn \in EntryPoints =>
        /\ (\E k \in 1..Len(sel.args) :
                sel.args[k] \in {"int", "str", "empty_str"})
               => sel.status = "ValueError"
        /\ sel.status \in {"ok", "ValueError"}

\* what the claim says the layer returns for queries q and memory m
PostNorm(q, m, training) ==
    LET n1 == Term("norm1",
                   <<Term("add", <<q, Dropout("dropout1", q, training)>>)>>)
        attn == Term("multihead_attn", <<n1, m, m>>)
        n2 == Term("norm2",
                   <<Term("add",
                          <<n1, Dropout("dropout2", attn, training)>>)>>)
        ff == Term("linear2",
                   <<Dropout("dropout",
                             Term("activation", <<Term("linear1", <<n2>>)>>),
                             training)>>)
    IN  Term("norm3",
             <<Term("add", <<n2, Dropout("dropout3", ff, training)>>)>>)

\* C23: in TransformerDecoderLayerOptimal.forward each of the three layer
\* normalizations is applied to the result of a residual addition, in the
\* order norm1 on the queries plus themselves, norm2 on the normalized
\* queries plus the cross-attention output, norm3 on that plus the
\* feed-forward output; no stage is skipped or reordered and the memory is
\* read and never changed.
C23_NormAfterResidual ==
    /\ layer.memory = layer.memory_in
    /\ layer.pc >= 2 => /\ layer.tgt.op \in {"norm1", "norm2", "norm3"}
                        /\ layer.tgt.args[1].op = "add"
    /\ layer.pc = 6 =>
           /\ layer.trace = <<"norm1", "multihead_attn", "norm2",
                               "linear2", "norm3">>
           /\ layer.tgt = PostNorm(layer.tgt_in, layer.memory_in,
                                   layer.training)

C23_Witness ==
    /\ layer.pc = 6
    /\ layer.training
    /\ layer.tgt.op = "norm3"
    /\ layer.tgt_in = Input("tgt", 2)
    /\ layer.memory_in = Input("memory", 1)

\* C24: the serving wrapper's get_multiclass_predictions returns as many
\* pairs as the configured k, for every k in 0..num_classes; for topk = 0
\* the list is empty.
C24_ResultLengthIsTopK ==
    (/\ sel.fn = "wrapper_multiclass"
     /\ sel.status = "ok")
    => Len(sel.result) = sel.topk

\* C25: with topk = 1 the serving wrapper returns the class index and the
\* score that utils.get_multiclass_predictions returns for the same logits
\* and the same activate, also when several classes share the maximum.
C25_WrapperTop1AgreesWithUtils ==
    (/\ sel.fn = "wrapper_multiclass"
     /\ sel.status = "ok"
     /\ sel.topk = 1)
    => LET labels == [i \in 1..Len(sel.logits) |-> i - 1]
           utils == UtilsMulticlassResult(sel.logits, labels, sel.activate)
       IN  /\ Len(sel.result) = 1
           /\ sel.result[1].index = utils[1].label
           /\ sel.result[1].score = utils[1].probability

\* the logits of the head for the group embeddings h
HeadLogits(h) ==
    AddBias(Truncate(Flatten(GroupFC(1, h, decoder.duplicate_pooling,
                                     Zeros(Len(h),
                                           decoder.duplicate_factor))),
                     decoder.num_classes),
            decoder.duplicate_pooling_bias)

\* C26: MLDecoder.forward in evaluation mode returns a one-element list
\* holding the logits whatever the configured loss; in training mode it
\* returns a one-element tuple holding the same logits when the loss is
\* asl, bce or am_binary and raises KeyError for every other loss, and no
\* weight has been modified when it raises.
C26_ReturnByModeAndLoss ==
    fwd.status \in {"ok", "KeyError"} /\ fwd.loss # "" =>
        /\ ~fwd.training =>
               /\ fwd.status = "ok"
               /\ fwd.container = "list"
               /\ fwd.out_data = <<HeadLogits(fwd.h)>>
        /\ fwd.training /\ fwd.loss \in {"asl", "bce", "am_binary"} =>
               /\ fwd.status = "ok"
               /\ fwd.container = "tuple"
               /\ fwd.out_data = <<HeadLogits(fwd.h)>>
        /\ fwd.training /\ fwd.loss \notin {"asl", "bce", "am_binary"} =>
               /\ fwd.status = "KeyError"
               /\ fwd.out_data = <<>>
               /\ decoder.writes = NoWrites

C26_Witness ==
    /\ fwd.status = "KeyError"
    /\ fwd.training
    /\ fwd.loss = "softmax"
    /\ decoder.num_classes = 3
    /\ decoder.writes = NoWrites

\* C27: the model of an NNCF task is wrapped at most once; optimize called
\* while a compression controller is set, loaded at construction or left by
\* an earlier optimize (a cancelled one included), raises RuntimeError
\* before it loads auxiliary weights, wraps or trains, and leaves model and
\* controller as they were.
C27_WrappedAtMostOnce ==
    /\ task.model <= 1
    /\ (task.last.op = "optimize" /\ task.last.ctrl_before # 0) =>
           /\ task.last.status = "RuntimeError"
           /\ ~task.last.aux_loaded
           /\ ~task.last.wrapped
           /\ ~task.last.trained
           /\ task.pc = "idle"
           /\ task.model = task.last.model_before
           /\ task.compression_ctrl = task.last.ctrl_before

\* optimize refused on a task whose earlier optimize was cancelled after
\* the wrapping
C27_Witness ==
    /\ task.last.op = "optimize"
    /\ task.last.status = "RuntimeError"
    /\ task.last.ctrl_before = 1
    /\ ~task.loaded_nncf
    /\ task.stop
    /\ task.model = 1

\* C28: when the stop callback reports a stop at the end of the training,
\* optimize returns without save_model and output_model keeps its status,
\* format, optimization type, optimization methods and precision; the five
\* fields are set, with status SUCCESS, only after save_model has completed
\* on the path that was not cancelled.
C28_CancelledLeavesOutputModel ==
    (task.last.op = "optimize" /\ task.pc = "idle") =>
        /\ task.last.stopped =>
               /\ ~task.last.saved
               /\ task.output_model = task.last.output_before
        /\ task.output_model # task.last.output_before =>
               /\ task.last.saved
               /\ ~task.last.stopped
               /\ task.output_model =
                      ModelEntity("SUCCESS", "BASE_FRAMEWORK", "NNCF",
                                  task.optimization_methods,
                                  task.precision)

C28_Witness ==
    /\ task.last.op = "optimize"
    /\ task.last.status = "cancelled"
    /\ task.last.stopped
    /\ task.pc = "idle"
    /\ task.output_model.model_status = "NOT_READY"

\* C29: export of a compressed task leaves dynamic graph building enabled
\* whenever it ends, by a return or by an exception of the underlying
\* export; export of an uncompressed task does not touch it.
C29_ExportRestoresGraphBuilding ==
    task.last.op = "export" =>
        /\ task.last.ctrl_before # 0 => task.dynamic_graph_building
        /\ task.last.ctrl_before = 0 => ~task.last.graph_touched

\* C30: after __enter__ every module of a matched type is in eval mode, and
\* after __exit__, reached normally or by an exception, every module of the
\* tree, matched or not, has the training flag it had before __enter__.
C30_TrainingFlagsRoundTrip ==
    /\ tree.status = "entered" =>
           \A i \in 1..Len(tree.parent) :
               tree.matched[i] => ~tree.training[i]
    /\ tree.status = "exited" => tree.training = tree.before

====
